---- MODULE Spec2Model ----
(***************************************************************************)
(* Model of the accessibility-aware routing core of the TCC repository:    *)
(*   - graph_weighting.py : calcular_peso_aresta, ponderar_grafo,          *)
(*                          restaurar_pesos_originais                      *)
(*   - benchmark_algoritmos.py : contar_nos_dijkstra, contar_nos_astar,    *)
(*                          verificar_conectividade,                       *)
(*                          medir_algoritmo_completo, executar             *)
(*   - route_calculator.py : calcular_rota                                 *)
(*                                                                         *)
(* Four specifications share the module:                                  *)
(*   SpecPesos : the weight transform and its restore on a small           *)
(*               multigraph whose tags and lengths are drawn in Init;      *)
(*   SpecBusca : the two instrumented search loops, one loop iteration     *)
(*               per step, on graphs, destinations and heuristics drawn    *)
(*               in Init;                                                  *)
(*   Spec      : the benchmark harness (executar and the measurements it   *)
(*               drives) on a graph with two components;                   *)
(*   SpecRota  : route queries to calcular_rota.                           *)
(*                                                                         *)
(* Costs are Python floats in the source.  The model keeps them as exact   *)
(* decimal fractions n / 10^e (record [n, e], normalised), so products of  *)
(* the penalty factors 0.5, 0.7, 0.8, 0.9, 1.5, 2.0 are exact.             *)
(***************************************************************************)
EXTENDS Integers, Sequences, FiniteSets, TLC

(***************************************************************************)
(* Bounds of the model                                                     *)
(***************************************************************************)
\* largest base length (metres) drawn for an edge of the weighting graph
MaxComprimento == 2
\* number of ponderar_grafo / restaurar_pesos_originais calls explored
MaxOps == 3
\* nodes of the search graphs (identifiers 1..NumNos)
NumNos == 4
\* edges of a search graph
MaxArcos == 4
\* largest edge cost of a search graph (costs are 1..MaxPeso)
MaxPeso == 3
\* largest heuristic value
MaxH == 3
\* nodes on which the heuristic is not zero
MaxNosH == 1
\* largest num_testes passed to executar
MaxTestes == 2
\* largest repeticoes_por_teste passed to executar
MaxRepeticoes == 2
\* largest duration of a timed invocation, in milliseconds
MaxTempo == 2
\* discarded pairs up to which pares_invalidos is counted
MaxInvalidos == 2
\* route queries made to calcular_rota / calcular_rota_completa
MaxConsultas == 2
\* calls of executar made on one harness object
MaxChamadas == 2
\* largest dist_metros passed to categorizar_distancia
MaxDistancia == 600
\* bits of the significand of a float
Precisao == 5
\* largest binary exponent of a float, and of the inverse of one
MaxExpoente == 6
\* longest list of arbitrary durations of a measurement
MaxLista == 2

(***************************************************************************)
(* State                                                                   *)
(***************************************************************************)
VARIABLES
  G,          \* weighting graph: edge -> edge data (tags, length, snapshot)
  nops,       \* number of transform / restore calls made
  ultimas,    \* the last two calls made, oldest first
  antes,      \* edge -> its length just before the latest ponderar_grafo
  antes_limpo,\* edge -> at that call it had no snapshot, or length = snapshot
  primeiro,   \* edge -> its length just before its first transform
  antes2,     \* edge -> its length just before the ponderar_grafo before
              \* the latest one
  perfis,     \* the names of the profiles of the last two calls, oldest
              \* first ("nenhum": a restore, or no call)
  historia    \* the calls made, in order: the name of the profile of a
              \* ponderar_grafo, "restaurar" for a restore

varsPesos ==
  <<G, nops, ultimas, antes, antes_limpo, primeiro, antes2, perfis, historia>>

VARIABLES
  busca_G,    \* the graph searched
  destino,    \* destino_id
  heur,       \* node -> heuristica_astar(G, node, destino_id)
  fase,       \* "dijkstra", "astar" or "fim": which loop is running
  dj,         \* local state of contar_nos_dijkstra
  ast,        \* local state of contar_nos_astar
  nos_dijkstra, \* value returned by contar_nos_dijkstra (-1: not yet)
  nos_astar     \* value returned by contar_nos_astar (-1: not yet)

varsBusca ==
  <<busca_G, destino, heur, fase, dj, ast, nos_dijkstra, nos_astar>>

VARIABLES
  pc,              \* position in executar
  num_testes,      \* argument of executar
  repeticoes,      \* argument repeticoes_por_teste of executar
  origem_nome,     \* the names drawn by random.sample(nomes, 2)
  destino_nome,
  pares_testados,
  pares_invalidos,
  resultados,      \* self.resultados
  med,             \* locals of the running medir_algoritmo_completo
  dijkstra,        \* the measurements of the current pair
  astar,
  sem_caminho_em,  \* algorithm -> the timed invocation of the current
                   \* pair that returned no route (0: none did)
  descarte,        \* why the latest pair was discarded
  nomes,           \* list(self.pois.keys())
  chamadas,        \* calls of executar made on the object
  rng,             \* the generator of the random module
  eventos          \* what ran for the pair drawn last, in order

varsBench ==
  <<pc, num_testes, repeticoes, origem_nome, destino_nome, pares_testados,
    pares_invalidos, resultados, med, dijkstra, astar, sem_caminho_em,
    descarte, nomes, chamadas, rng, eventos>>

VARIABLES
  rota_G,        \* arguments of the route query
  rota_origem,
  rota_destino,
  rota_fase,     \* "pronta", "retornou"
  rota_funcao,   \* the function called
  rota_ret,      \* the value returned
  rota_st,       \* the st.error / st.info messages shown, in order
  rota_caso,     \* what happened inside: "rota", "sem_caminho", "nao_resolvido"
  consultas      \* queries made

varsRota ==
  <<rota_G, rota_origem, rota_destino, rota_fase, rota_funcao, rota_ret,
    rota_st, rota_caso, consultas>>

VARIABLES
  calc_fase,       \* "pronta", "feito"
  calc_dist,       \* argument dist_metros of categorizar_distancia
  calc_categoria,  \* the value it returns
  calc_tempos,     \* the durations of a measurement's timed loop
  calc_medicao,    \* the MedicaoAlgoritmo built from them
  calc_G,          \* arguments G, (u, v, key) and perfil of
  calc_e,          \* calcular_peso_aresta
  calc_perfil,
  calc_peso        \* the value it returns

varsCalculo ==
  <<calc_fase, calc_dist, calc_categoria, calc_tempos, calc_medicao,
    calc_G, calc_e, calc_perfil, calc_peso>>

vars == <<varsPesos, varsBusca, varsBench, varsRota, varsCalculo>>

(***************************************************************************)
(* Exact decimal arithmetic standing for the float arithmetic of the code  *)
(***************************************************************************)
RECURSIVE Pot10(_)
Pot10(k) == IF k = 0 THEN 1 ELSE 10 * Pot10(k - 1)

RECURSIVE Norm(_)
Norm(d) ==
  IF d.n = 0 THEN [n |-> 0, e |-> 0]
  ELSE IF d.e > 0 /\ d.n % 10 = 0 THEN Norm([n |-> d.n \div 10, e |-> d.e - 1])
  ELSE d

Dec(n, e) == Norm([n |-> n, e |-> e])

DInt(k) == [n |-> k, e |-> 0]

\* a * b of two floats
DMul(a, b) == Norm([n |-> a.n * b.n, e |-> a.e + b.e])

\* a < b
DLt(a, b) == a.n * Pot10(b.e) < b.n * Pot10(a.e)

\* abs(a)
DAbs(a) == [n |-> IF a.n < 0 THEN 0 - a.n ELSE a.n, e |-> a.e]

Um == DInt(1)

(***************************************************************************)
(* Tag values.  A tag read with edge_data.get(tag, None) is absent, a      *)
(* string (a sequence of characters) or a number.                          *)
(***************************************************************************)
Ausente == [t |-> "none"]
Str(s) == [t |-> "str", s |-> s]
Num(d) == [t |-> "num", v |-> d]
Lista(s) == [t |-> "list", v |-> s]

\* Python truthiness of a tag value: `if incline:`, `if width and ...`
Verdadeiro(x) ==
  CASE x.t = "none" -> FALSE
    [] x.t = "str" -> Len(x.s) > 0
    [] x.t = "list" -> Len(x.v) > 0
    [] OTHER -> x.v.n # 0

Digitos == {"0", "1", "2", "3", "4", "5", "6", "7", "8", "9"}

ValorDigito(c) ==
  CASE c = "0" -> 0 [] c = "1" -> 1 [] c = "2" -> 2 [] c = "3" -> 3
    [] c = "4" -> 4 [] c = "5" -> 5 [] c = "6" -> 6 [] c = "7" -> 7
    [] c = "8" -> 8 [] OTHER -> 9

\* str.replace(c, '')
Replace(s, c) == SelectSeq(s, LAMBDA x : x # c)

\* str.strip()
RECURSIVE LStrip(_)
LStrip(s) == IF Len(s) > 0 /\ Head(s) = " " THEN LStrip(Tail(s)) ELSE s

RECURSIVE RStrip(_)
RStrip(s) ==
  IF Len(s) > 0 /\ s[Len(s)] = " " THEN RStrip(SubSeq(s, 1, Len(s) - 1)) ELSE s

Strip(s) == RStrip(LStrip(s))

RECURSIVE ValorInteiro(_)
ValorInteiro(s) ==
  IF Len(s) = 0 THEN 0
  ELSE 10 * ValorInteiro(SubSeq(s, 1, Len(s) - 1)) + ValorDigito(s[Len(s)])

\* float(s) of a string: an optional sign, digits, an optional point and
\* digits; anything else raises ValueError (ok = FALSE).  float() itself
\* strips surrounding blanks.
FloatStr(s0) ==
  LET s == Strip(s0)
      neg == Len(s) > 0 /\ Head(s) = "-"
      body == IF Len(s) > 0 /\ Head(s) \in {"-", "+"} THEN Tail(s) ELSE s
      pontos == {i \in 1..Len(body) : body[i] = "."}
      digs == Replace(body, ".")
      frac == IF pontos = {} THEN 0
              ELSE Len(body) - (CHOOSE i \in pontos : TRUE)
      ok == /\ Len(digs) > 0
            /\ Cardinality(pontos) <= 1
            /\ \A i \in 1..Len(digs) : digs[i] \in Digitos
      v == ValorInteiro(digs)
  IN  IF ok THEN [ok |-> TRUE, v |-> Dec(IF neg THEN 0 - v ELSE v, frac)]
      ELSE [ok |-> FALSE, v |-> DInt(0)]

\* The try-block of step 3 and of step 7: strip a unit character from a
\* string and convert; a number converts as it is.
\* A slip of the try-block: `except: valor = 0.0` in place of `pass`.
ValorNumerico_zero(x, unidade) ==
  IF x.t = "str"
    THEN LET r == FloatStr(Strip(Replace(x.s, unidade)))
         IN  IF r.ok THEN r ELSE [ok |-> TRUE, v |-> DInt(0)]
  ELSE IF x.t = "list" THEN [ok |-> TRUE, v |-> DInt(0)]
  ELSE [ok |-> TRUE, v |-> x.v]

\* float() of a list raises TypeError, caught like the ValueError of a
\* string that is no number.
ValorNumerico(x, unidade) ==
  IF x.t = "str" THEN FloatStr(Strip(Replace(x.s, unidade)))
  ELSE IF x.t = "list" THEN [ok |-> FALSE, v |-> DInt(0)]
  ELSE [ok |-> TRUE, v |-> x.v]

(***************************************************************************)
(* The weighting graph: a multigraph with two parallel edges 1->2 and one  *)
(* edge 3->1.  Node 2 is a marked crossing; nodes 1 and 3 are not.         *)
(***************************************************************************)
NosP == {1, 2, 3}

Arestas == {<<1, 2, 0>>, <<1, 2, 1>>, <<3, 1, 0>>}

NosDados ==
  [n \in NosP |->
     IF n = 2 THEN [crossing |-> "marked", highway |-> ""]
     ELSE [crossing |-> "", highway |-> ""]]

\* The tags an edge may carry (without its length).
TiposAresta ==
  { [wheelchair |-> "", highway |-> "footway", incline |-> Ausente,
     ramp |-> "", surface |-> "asphalt", width |-> Ausente],
    [wheelchair |-> "", highway |-> "steps",
     incline |-> Str(<<"1", "0", "%">>),
     ramp |-> "", surface |-> "", width |-> Ausente],
    [wheelchair |-> "no", highway |-> "path", incline |-> Num(DInt(3)),
     ramp |-> "", surface |-> "gravel",
     width |-> Str(<<"1", ".", "2", " ", "m">>)],
    [wheelchair |-> "limited", highway |-> "footway",
     incline |-> Str(<<"u", "p">>),
     ramp |-> "yes", surface |-> "", width |-> Num(DInt(2))] }

\* MobilityProfile values handed to the transform.
Perfis ==
  { [nome |-> "padrao", requer_acessibilidade |-> FALSE,
     prefere_faixas |-> FALSE, penalizacao_sem_rampa |-> DInt(1),
     penalizacao_escadas |-> DInt(1), penalizacao_inclinacao |-> DInt(1),
     penalizacao_sem_faixa |-> DInt(1)],
    [nome |-> "cadeirante", requer_acessibilidade |-> TRUE,
     prefere_faixas |-> TRUE, penalizacao_sem_rampa |-> DInt(3),
     penalizacao_escadas |-> DInt(5), penalizacao_inclinacao |-> DInt(2),
     penalizacao_sem_faixa |-> DInt(2)],
    [nome |-> "idoso", requer_acessibilidade |-> FALSE,
     prefere_faixas |-> TRUE, penalizacao_sem_rampa |-> DInt(2),
     penalizacao_escadas |-> DInt(2), penalizacao_inclinacao |-> Dec(15, 1),
     penalizacao_sem_faixa |-> Dec(12, 1)] }

(***************************************************************************)
(* graph_weighting.py                                                      *)
(***************************************************************************)
identificar_faixas_pedestres ==
  {n \in NosP :
     \/ NosDados[n].crossing \in {"yes", "marked", "zebra", "traffic_signals"}
     \/ NosDados[n].highway = "crossing"}

\* 'ramp' in highway_type, for the highway values of the model
ContemRamp(highway) == highway \in {"ramp", "footway_ramp"}

\* The penalty factor accumulated by steps 1 to 7.
fator_penalizacao(d, u, v, perfil, faixas) ==
  LET f1 == IF d.wheelchair = "no" /\ perfil.requer_acessibilidade
              THEN perfil.penalizacao_sem_rampa
            ELSE IF d.wheelchair = "limited"
              THEN DMul(perfil.penalizacao_sem_rampa, Dec(5, 1))
            ELSE Um
      f2 == IF d.highway = "steps" THEN perfil.penalizacao_escadas ELSE Um
      inc == ValorNumerico(d.incline, "%")
      f3 == IF Verdadeiro(d.incline) /\ inc.ok /\ DLt(DInt(5), DAbs(inc.v))
              THEN perfil.penalizacao_inclinacao
            ELSE Um
      f4 == IF (ContemRamp(d.highway) \/ d.ramp = "yes")
                /\ perfil.requer_acessibilidade
              THEN Dec(7, 1)
            ELSE Um
      f5 == IF perfil.prefere_faixas
              THEN IF u \notin faixas /\ v \notin faixas
                     THEN perfil.penalizacao_sem_faixa
                   ELSE Dec(8, 1)
            ELSE Um
      f6 == IF perfil.requer_acessibilidade
              THEN IF d.surface \in {"unpaved", "gravel", "dirt", "grass", "sand"}
                     THEN DInt(2)
                   ELSE IF d.surface \in {"paved", "asphalt", "concrete"}
                     THEN Dec(9, 1)
                   ELSE Um
            ELSE Um
      wid == ValorNumerico(d.width, "m")
      f7 == IF Verdadeiro(d.width) /\ perfil.requer_acessibilidade
                /\ wid.ok /\ DLt(wid.v, Dec(15, 1))
              THEN Dec(15, 1)
            ELSE Um
  IN  DMul(DMul(DMul(DMul(DMul(DMul(DMul(Um, f1), f2), f3), f4), f5), f6), f7)

\* A slip of the last line: the sign of the product.
calcular_peso_aresta_oposto(g, e, perfil, faixas) ==
  DMul(DMul(DInt(0 - 1), g[e].length),
       fator_penalizacao(g[e], e[1], e[2], perfil, faixas))

\* peso_final = peso_base * fator_penalizacao
calcular_peso_aresta(g, e, perfil, faixas) ==
  DMul(g[e].length, fator_penalizacao(g[e], e[1], e[2], perfil, faixas))

\* A slip of the loop body: the snapshot is taken after the live length
\* has been overwritten.
ponderar_aresta_tardio(g, e, perfil, faixas) ==
  LET peso == calcular_peso_aresta(g, e, perfil, faixas)
  IN  [g[e] EXCEPT !.length = peso,
                   !.length_original =
                      IF g[e].length_original = Ausente THEN Num(peso) ELSE @]

\* A slip of the loop body: the snapshot is taken on every call.
ponderar_aresta_sempre(g, e, perfil, faixas) ==
  [g[e] EXCEPT !.length_original = Num(g[e].length),
               !.length = calcular_peso_aresta(g, e, perfil, faixas)]

\* A slip of the loop body: the factor is applied to the snapshot when
\* there is one.
ponderar_aresta_da_original(g, e, perfil, faixas) ==
  LET d == g[e]
      fator == fator_penalizacao(d, e[1], e[2], perfil, faixas)
  IN  IF d.length_original = Ausente
        THEN [d EXCEPT !.length_original = Num(d.length),
                       !.length = DMul(d.length, fator)]
      ELSE [d EXCEPT !.length = DMul(d.length_original.v, fator)]

\* One iteration of the loop of ponderar_grafo: snapshot if none, then
\* overwrite the live length.
ponderar_aresta(g, e, perfil, faixas) ==
  [g[e] EXCEPT !.length_original =
                  IF g[e].length_original = Ausente THEN Num(g[e].length) ELSE @,
               !.length = calcular_peso_aresta(g, e, perfil, faixas)]

ponderar_grafo(g, perfil) ==
  LET faixas == identificar_faixas_pedestres
  IN  [e \in Arestas |-> ponderar_aresta(g, e, perfil, faixas)]

\* A slip of the loop body: the assignment the other way round,
\* G[u][v][key]['length_original'] = G[u][v][key]['length'].
restaurar_aresta_invertido(d) ==
  IF d.length_original # Ausente
    THEN [d EXCEPT !.length_original = Num(d.length)]
  ELSE d

\* One iteration of the loop of restaurar_pesos_originais.
restaurar_aresta(d) ==
  IF d.length_original # Ausente THEN [d EXCEPT !.length = d.length_original.v]
  ELSE d

restaurar_pesos_originais(g) == [e \in Arestas |-> restaurar_aresta(g[e])]

(***************************************************************************)
(* SpecPesos: any sequence of transforms and restores                      *)
(***************************************************************************)
Limpa(d) == d.length_original = Ausente \/ d.length_original = Num(d.length)

InitPesos ==
  /\ G \in [Arestas ->
              {[wheelchair |-> t.wheelchair, highway |-> t.highway,
                incline |-> t.incline, ramp |-> t.ramp, surface |-> t.surface,
                width |-> t.width, length |-> DInt(l),
                length_original |-> Ausente] :
                 t \in TiposAresta, l \in 0..MaxComprimento}]
  /\ nops = 0
  /\ ultimas = <<"nenhuma", "nenhuma">>
  /\ antes = [e \in Arestas |-> G[e].length]
  /\ antes_limpo = [e \in Arestas |-> TRUE]
  /\ primeiro = [e \in Arestas |-> Ausente]
  /\ antes2 = [e \in Arestas |-> G[e].length]
  /\ perfis = <<"nenhum", "nenhum">>
  /\ historia = <<>>

Ponderar(perfil) ==
  /\ nops < MaxOps
  /\ G' = ponderar_grafo(G, perfil)
  /\ nops' = nops + 1
  /\ ultimas' = <<ultimas[2], "ponderar">>
  /\ antes' = [e \in Arestas |-> G[e].length]
  /\ antes_limpo' = [e \in Arestas |-> Limpa(G[e])]
  /\ primeiro' = [e \in Arestas |->
                    IF primeiro[e] = Ausente THEN Num(G[e].length)
                    ELSE primeiro[e]]
  /\ antes2' = antes
  /\ perfis' = <<perfis[2], perfil.nome>>
  /\ historia' = Append(historia, perfil.nome)
  /\ UNCHANGED <<varsBusca, varsBench, varsRota, varsCalculo>>

Restaurar ==
  /\ nops < MaxOps
  /\ G' = restaurar_pesos_originais(G)
  /\ nops' = nops + 1
  /\ ultimas' = <<ultimas[2], "restaurar">>
  /\ perfis' = <<perfis[2], "nenhum">>
  /\ historia' = Append(historia, "restaurar")
  /\ UNCHANGED <<antes, antes_limpo, primeiro, antes2>>
  /\ UNCHANGED <<varsBusca, varsBench, varsRota, varsCalculo>>

NextPesos ==
  \/ \E perfil \in Perfis : Ponderar(perfil)
  \/ Restaurar

(***************************************************************************)
(* Claims about the weight transform                                       *)
(***************************************************************************)
RoundTrip == ultimas = <<"ponderar", "restaurar">>

\* C1 (as stated): after ponderar_grafo(G, perfil) followed by
\* restaurar_pesos_originais(G), every edge's length equals the value it
\* had just before that ponderar_grafo call.
C1_Original ==
  RoundTrip => \A e \in Arestas : G[e].length = antes[e]

\* C1 (amended): after ponderar_grafo followed by restaurar_pesos_originais
\* every edge's length equals the value it had before its first transform;
\* that is the value it had just before the ponderar_grafo call whenever,
\* at that call, the edge had no snapshot or its length equalled its
\* snapshot.
C1_RoundTrip ==
  RoundTrip =>
    \A e \in Arestas :
      /\ G[e].length = primeiro[e].v
      /\ antes_limpo[e] => G[e].length = antes[e]

\* C1 witness: a round trip that changed and restored a length, made on a
\* graph that had been transformed and restored before.
C1_Witness ==
  /\ RoundTrip
  /\ nops = 3
  /\ \A e \in Arestas : antes_limpo[e]
  /\ \E e \in Arestas : G[e].length # DInt(0)

\* C2: every edge that has a 'length_original' snapshot holds in it the
\* length the edge had immediately before its first transform, and a
\* snapshot once set is never written again.
C2_Snapshot ==
  /\ [](\A e \in Arestas :
          G[e].length_original # Ausente =>
             /\ primeiro[e] # Ausente
             /\ G[e].length_original = primeiro[e])
  /\ [][\A e \in Arestas :
          G[e].length_original # Ausente =>
             G'[e].length_original = G[e].length_original]_varsPesos

\* C2 witness: an edge transformed twice whose live length differs from
\* its snapshot.
C2_Witness ==
  /\ ultimas = <<"ponderar", "ponderar">>
  /\ \E e \in Arestas :
       /\ G[e].length_original # Ausente
       /\ G[e].length_original # Num(antes[e])
       /\ G[e].length # antes[e]

\* the factor of the profile of that name on edge e, whose tags no call
\* changes
FatorDe(e, nome) ==
  fator_penalizacao(G[e], e[1], e[2], CHOOSE p \in Perfis : p.nome = nome,
                    identificar_faixas_pedestres)

\* C18: after ponderar_grafo(G, p1) followed at once by ponderar_grafo(G, p2)
\* every edge's length is the length it had before the first of the two
\* calls, times the factor of p1, times the factor of p2.
C18_Composicao ==
  (ultimas = <<"ponderar", "ponderar">>) =>
    \A e \in Arestas :
      G[e].length =
        DMul(DMul(antes2[e], FatorDe(e, perfis[1])), FatorDe(e, perfis[2]))

\* C18 witness: two transforms in a row on an untouched graph, where on
\* some edge the first factor is not 1 and the length is not the factor of
\* the second profile applied to the original length.
C18_Witness ==
  /\ ultimas = <<"ponderar", "ponderar">>
  /\ nops = 2
  /\ \E e \in Arestas :
       /\ FatorDe(e, perfis[1]) # Um
       /\ G[e].length_original = Num(antes2[e])
       /\ G[e].length # DMul(G[e].length_original.v, FatorDe(e, perfis[2]))

\* the graph as it was before any call: no snapshot, every edge at the
\* length it had before its first transform
Intacto ==
  [e \in Arestas |->
     [G[e] EXCEPT !.length = IF primeiro[e] = Ausente THEN @
                             ELSE primeiro[e].v,
                  !.length_original = Ausente]]

NomesPerfis == {p.nome : p \in Perfis}

\* the calls made were ponderar_grafo, restaurar_pesos_originais,
\* ponderar_grafo, on a graph untouched before them
TrocaDePerfil ==
  /\ Len(historia) = 3
  /\ historia[1] \in NomesPerfis
  /\ historia[2] = "restaurar"
  /\ historia[3] \in NomesPerfis

\* C27: after ponderar_grafo(G, p1), restaurar_pesos_originais(G),
\* ponderar_grafo(G, p2) every edge has the length that ponderar_grafo(G, p2)
\* gives it on the untouched graph; and a restore leaves an edge without
\* a snapshot as it is.
C27_TrocaDePerfil ==
  /\ [](TrocaDePerfil =>
          \A p2 \in {p \in Perfis : p.nome = historia[3]} :
            \A e \in Arestas :
              G[e].length = ponderar_grafo(Intacto, p2)[e].length)
  /\ [][(historia' = Append(historia, "restaurar")) =>
          \A e \in Arestas :
            G[e].length_original = Ausente => G'[e] = G[e]]_vars

\* C27 witness: a switch from one profile to another with a restore in
\* between, where on some edge the first profile had changed the length
\* and the second one changes it to something else.
C27_Witness ==
  /\ TrocaDePerfil
  /\ historia[1] # historia[3]
  /\ \E e \in Arestas :
       /\ FatorDe(e, historia[1]) # Um
       /\ FatorDe(e, historia[1]) # FatorDe(e, historia[3])
       /\ G[e].length # DInt(0)
       /\ G[e].length # G[e].length_original.v

Nos == 1..NumNos

Origem == 1

Arcos == {a \in Nos \X Nos : a[1] # a[2] /\ a[2] # Origem}

Inf == 1000000

Min(a, b) == IF a < b THEN a ELSE b

\* G.neighbors(u)
neighbors(g, u) == {v \in Nos : <<u, v>> \in DOMAIN g /\ Len(g[<<u, v>>]) > 0}

\* The inner loop over the keys of G[u][v]: the least 'length'.
RECURSIVE peso_minimo_de(_, _, _)
peso_minimo_de(ws, k, acc) ==
  IF k > Len(ws) THEN acc
  ELSE peso_minimo_de(ws, k + 1, IF ws[k] < acc THEN ws[k] ELSE acc)

\* A slip of the inner loop: `peso_minimo = peso` without the comparison,
\* which leaves the 'length' of the last key.
peso_minimo_ultimo(g, u, v) == g[<<u, v>>][Len(g[<<u, v>>])]

peso_minimo(g, u, v) == peso_minimo_de(g[<<u, v>>], 1, Inf)

\* heapq.heappop: the least (priority, node) pair, by priority then node.
heappop(heap) ==
  CHOOSE x \in heap :
    \A y \in heap : x[1] < y[1] \/ (x[1] = y[1] /\ x[2] <= y[2])

\* State of a search loop before its first iteration.  dist[v] = -1
\* stands for v not in dist; custo is the accumulated cost with which the
\* destination was settled (-1: not settled); ordem lists the settled
\* nodes in the order they were settled.
EstadoInicial(origem_id) ==
  [dist |-> [v \in Nos |-> IF v = origem_id THEN 0 ELSE -1],
   visitados |-> {}, explorados |-> {},
   heap |-> {<<0, origem_id>>},
   parou |-> FALSE, custo |-> -1, ordem |-> <<>>]

\* A slip of the relaxation: a neighbour already in dist is never
\* improved (`if v not in dist:` alone).
RECURSIVE relaxar_sem_melhora(_, _, _, _, _, _)
relaxar_sem_melhora(st, g, u, g_u, vs, h) ==
  IF vs = {} THEN st
  ELSE LET v == CHOOSE x \in vs : \A y \in vs : x <= y
           nova_dist == g_u + peso_minimo(g, u, v)
           st1 == IF v \notin st.visitados /\ st.dist[v] = -1
                    THEN [st EXCEPT !.dist[v] = nova_dist,
                                    !.heap = @ \cup {<<nova_dist + h[v], v>>}]
                  ELSE st
       IN  relaxar_sem_melhora(st1, g, u, g_u, vs \ {v}, h)

\* The for-loop over the neighbours of u.  g_u is the accumulated cost of
\* u the relaxation starts from; h gives the heuristic added to the
\* priority (zero for contar_nos_dijkstra).
RECURSIVE relaxar(_, _, _, _, _, _)
relaxar(st, g, u, g_u, vs, h) ==
  IF vs = {} THEN st
  ELSE LET v == CHOOSE x \in vs : \A y \in vs : x <= y
           nova_dist == g_u + peso_minimo(g, u, v)
           st1 == IF v \notin st.visitados
                     /\ (st.dist[v] = -1 \/ nova_dist < st.dist[v])
                    THEN [st EXCEPT !.dist[v] = nova_dist,
                                    !.heap = @ \cup {<<nova_dist + h[v], v>>}]
                  ELSE st
       IN  relaxar(st1, g, u, g_u, vs \ {v}, h)

ZeroH == [v \in Nos |-> 0]

\* visitados.add(u); explorados.add(u)
assentar(st, u) ==
  [st EXCEPT !.visitados = @ \cup {u},
             !.explorados = @ \cup {u},
             !.ordem = Append(@, u)]

\* A slip of the loop: no `if u in visitados: continue`.
iteracao_dijkstra_sem_visitados(st, g, destino_id) ==
  LET topo == heappop(st.heap)
      d == topo[1]
      u == topo[2]
      st1 == [st EXCEPT !.heap = @ \ {topo}]
  IN  IF u = destino_id
        THEN [assentar(st1, u) EXCEPT !.parou = TRUE, !.custo = d]
      ELSE relaxar(assentar(st1, u), g, u, d, neighbors(g, u), ZeroH)

\* A slip of the loop: explorados.add(u) comes after the test of the
\* destination, which is then settled without being counted.
iteracao_dijkstra_conta_depois(st, g, destino_id) ==
  LET topo == heappop(st.heap)
      d == topo[1]
      u == topo[2]
      st1 == [st EXCEPT !.heap = @ \ {topo}]
  IN  IF u \in st.visitados THEN st1
      ELSE IF u = destino_id
        THEN [assentar(st1, u) EXCEPT !.explorados = st1.explorados,
                                      !.parou = TRUE, !.custo = d]
      ELSE relaxar(assentar(st1, u), g, u, d, neighbors(g, u), ZeroH)

\* One iteration of the while-loop of contar_nos_dijkstra: the cost of u
\* is the popped d, the priority pushed is nova_dist.
iteracao_dijkstra(st, g, destino_id) ==
  LET topo == heappop(st.heap)
      d == topo[1]
      u == topo[2]
      st1 == [st EXCEPT !.heap = @ \ {topo}]
  IN  IF u \in st.visitados THEN st1
      ELSE IF u = destino_id
        THEN [assentar(st1, u) EXCEPT !.parou = TRUE, !.custo = d]
      ELSE relaxar(assentar(st1, u), g, u, d, neighbors(g, u), ZeroH)

\* A slip of the loop: the search does not stop when the destination is
\* settled.
iteracao_astar_sem_break(st, g, destino_id, h) ==
  LET topo == heappop(st.heap)
      u == topo[2]
      st1 == [st EXCEPT !.heap = @ \ {topo}]
      st2 == IF u = destino_id /\ st1.custo = -1
               THEN [st1 EXCEPT !.custo = st.dist[u]]
             ELSE st1
  IN  IF u \in st.visitados THEN st1
      ELSE relaxar(assentar(st2, u), g, u, st.dist[u], neighbors(g, u), h)

\* A slip of the loop: nova_dist = peso_minimo, without dist[u].
iteracao_astar_sem_acumular(st, g, destino_id, h) ==
  LET topo == heappop(st.heap)
      u == topo[2]
      st1 == [st EXCEPT !.heap = @ \ {topo}]
  IN  IF u \in st.visitados THEN st1
      ELSE IF u = destino_id
        THEN [assentar(st1, u) EXCEPT !.parou = TRUE, !.custo = st.dist[u]]
      ELSE relaxar(assentar(st1, u), g, u, 0, neighbors(g, u), h)

\* One iteration of the while-loop of contar_nos_astar: the cost of u is
\* dist[u], the priority pushed is f = nova_dist + h(v).
iteracao_astar(st, g, destino_id, h) ==
  LET topo == heappop(st.heap)
      u == topo[2]
      st1 == [st EXCEPT !.heap = @ \ {topo}]
  IN  IF u \in st.visitados THEN st1
      ELSE IF u = destino_id
        THEN [assentar(st1, u) EXCEPT !.parou = TRUE, !.custo = st.dist[u]]
      ELSE relaxar(assentar(st1, u), g, u, st.dist[u], neighbors(g, u), h)

\* The while-loop has ended: the destination was settled or the heap is
\* empty.
terminou(st) == st.parou \/ st.heap = {}

\* The node from which the search reached the settled node v: the first
\* settled neighbour whose relaxation gave v the cost it was settled with.
pai(st, g, v) ==
  LET deu(i) == LET u == st.ordem[i]
                IN  /\ v \in neighbors(g, u)
                    /\ st.dist[u] + peso_minimo(g, u, v) = st.dist[v]
      k == CHOOSE i \in 1..Len(st.ordem) :
             deu(i) /\ \A j \in 1..(i - 1) : ~deu(j)
  IN  st.ordem[k]

\* The path a search hands back with its count: from the origin to the
\* settled node v along the nodes the search came from.
RECURSIVE caminho_encontrado(_, _, _, _)
caminho_encontrado(st, g, origem_id, v) ==
  IF v = origem_id THEN <<v>>
  ELSE Append(caminho_encontrado(st, g, origem_id, pai(st, g, v)), v)

(***************************************************************************)
(* Reference values, by Bellman-Ford relaxation rounds (not by the loops   *)
(* above): least total cost from each node to t, and from o to each node.  *)
(***************************************************************************)
CustoArco(g, u, v) ==
  IF v \in neighbors(g, u)
    THEN LET ws == g[<<u, v>>]
         IN  CHOOSE w \in {ws[k] : k \in 1..Len(ws)} :
               \A k \in 1..Len(ws) : w <= ws[k]
  ELSE Inf

MinSet(S) == IF S = {} THEN Inf ELSE CHOOSE x \in S : \A y \in S : x <= y

RECURSIVE RestanteK(_, _, _)
RestanteK(g, t, k) ==
  IF k = 0 THEN [v \in Nos |-> IF v = t THEN 0 ELSE Inf]
  ELSE LET r == RestanteK(g, t, k - 1)
       IN  [u \in Nos |->
              Min(r[u], MinSet({CustoArco(g, u, v) + r[v] :
                                  v \in {x \in Nos : r[x] < Inf
                                           /\ CustoArco(g, u, x) < Inf}}))]

\* least cost of a path from each node to t (Inf: none)
Restante(g, t) == RestanteK(g, t, NumNos - 1)

RECURSIVE DistanciaK(_, _, _)
DistanciaK(g, o, k) ==
  IF k = 0 THEN [v \in Nos |-> IF v = o THEN 0 ELSE Inf]
  ELSE LET r == DistanciaK(g, o, k - 1)
       IN  [v \in Nos |->
              Min(r[v], MinSet({r[u] + CustoArco(g, u, v) :
                                  u \in {x \in Nos : r[x] < Inf
                                           /\ CustoArco(g, x, v) < Inf}}))]

\* least cost of a path from o to each node (Inf: none)
Distancia(g, o) == DistanciaK(g, o, NumNos - 1)

\* h never exceeds the true remaining cost to the destination
Admissivel(g, t, h) ==
  LET r == Restante(g, t) IN \A v \in Nos : h[v] <= r[v]

\* h(t) = 0 and h(u) <= cost(u, v) + h(v) on every edge
Consistente(g, t, h) ==
  /\ h[t] = 0
  /\ \A u \in Nos : \A v \in neighbors(g, u) :
       h[u] <= CustoArco(g, u, v) + h[v]

(***************************************************************************)
(* SpecBusca: contar_nos_dijkstra, then contar_nos_astar, on the same      *)
(* graph, origin and destination.                                          *)
(***************************************************************************)
\* the graphs with at most max_arcos edges
Grafos(max_arcos) ==
  {[a \in Arcos |-> IF w[a] = 0 THEN <<>> ELSE <<w[a]>>] :
     w \in {x \in [Arcos -> 0..MaxPeso] :
              Cardinality({a \in Arcos : x[a] # 0}) <= max_arcos}}

\* the heuristics that are not zero on at most max_nos nodes
Heuristicas(max_nos) ==
  {x \in [Nos -> 0..MaxH] : Cardinality({v \in Nos : x[v] # 0}) <= max_nos}

\* Edges that leave the destination are never read by either loop (the
\* destination is never expanded), so the graphs drawn carry none.
InitBusca ==
  /\ destino \in Nos \ {Origem}
  /\ busca_G \in {g \in Grafos(MaxArcos) :
                    \A a \in Arcos : a[1] = destino => g[a] = <<>>}
  /\ \E r \in {Restante(busca_G, destino)} :
       heur \in {x \in Heuristicas(MaxNosH) : \A v \in Nos : x[v] <= r[v]}
  /\ fase = "dijkstra"
  /\ dj = EstadoInicial(Origem)
  /\ ast = EstadoInicial(Origem)
  /\ nos_dijkstra = -1
  /\ nos_astar = -1

\* A slip of the loop: the least 'length' found for u-v is stored back
\* into the graph, G[u][v][key]['length'] = peso_minimo for every key.
IteracaoDijkstra_grava ==
  /\ fase = "dijkstra"
  /\ ~terminou(dj)
  /\ dj' = iteracao_dijkstra(dj, busca_G, destino)
  /\ busca_G' =
       [a \in Arcos |->
          IF a[1] = heappop(dj.heap)[2] /\ busca_G[a] # <<>>
            THEN [k \in 1..Len(busca_G[a]) |->
                    peso_minimo(busca_G, a[1], a[2])]
          ELSE busca_G[a]]
  /\ UNCHANGED <<destino, heur, fase, ast, nos_dijkstra, nos_astar>>
  /\ UNCHANGED <<varsPesos, varsBench, varsRota, varsCalculo>>

IteracaoDijkstra ==
  /\ fase = "dijkstra"
  /\ ~terminou(dj)
  /\ dj' = iteracao_dijkstra(dj, busca_G, destino)
  /\ UNCHANGED <<busca_G, destino, heur, fase, ast, nos_dijkstra, nos_astar>>
  /\ UNCHANGED <<varsPesos, varsBench, varsRota, varsCalculo>>

\* return len(explorados)
RetornoDijkstra ==
  /\ fase = "dijkstra"
  /\ terminou(dj)
  /\ nos_dijkstra' = Cardinality(dj.explorados)
  /\ fase' = "astar"
  /\ UNCHANGED <<busca_G, destino, heur, dj, ast, nos_astar>>
  /\ UNCHANGED <<varsPesos, varsBench, varsRota, varsCalculo>>

IteracaoAstar ==
  /\ fase = "astar"
  /\ ~terminou(ast)
  /\ ast' = iteracao_astar(ast, busca_G, destino, heur)
  /\ UNCHANGED <<busca_G, destino, heur, fase, dj, nos_dijkstra, nos_astar>>
  /\ UNCHANGED <<varsPesos, varsBench, varsRota, varsCalculo>>

\* return len(explorados)
RetornoAstar ==
  /\ fase = "astar"
  /\ terminou(ast)
  /\ nos_astar' = Cardinality(ast.explorados)
  /\ fase' = "fim"
  /\ UNCHANGED <<busca_G, destino, heur, dj, ast, nos_dijkstra>>
  /\ UNCHANGED <<varsPesos, varsBench, varsRota, varsCalculo>>

NextBusca ==
  \/ IteracaoDijkstra
  \/ RetornoDijkstra
  \/ IteracaoAstar
  \/ RetornoAstar

(***************************************************************************)
(* SpecParalelas: the same two loops on multigraphs, where up to           *)
(* MaxParalelas edges join a pair of nodes.                                *)
(***************************************************************************)
MaxParalelas == 2

MaxArcosParalelos == 2

\* the multigraphs with at most max_arcos joined pairs, each by up to
\* MaxParalelas edges (keys 0, 1, ...)
RECURSIVE GrafosParalelos(_)
GrafosParalelos(max_arcos) ==
  IF max_arcos = 0 THEN {[a \in Arcos |-> <<>>]}
  ELSE {[g EXCEPT ![a] = ws] :
          g \in GrafosParalelos(max_arcos - 1), a \in Arcos,
          ws \in UNION {[1..n -> 1..MaxPeso] : n \in 0..MaxParalelas}}

InitParalelas ==
  /\ destino \in Nos \ {Origem}
  /\ busca_G \in {g \in GrafosParalelos(MaxArcosParalelos) :
                    \A a \in Arcos : a[1] = destino => g[a] = <<>>}
  /\ \E r \in {Restante(busca_G, destino)} :
       heur \in {x \in Heuristicas(MaxNosH) : \A v \in Nos : x[v] <= r[v]}
  /\ fase = "dijkstra"
  /\ dj = EstadoInicial(Origem)
  /\ ast = EstadoInicial(Origem)
  /\ nos_dijkstra = -1
  /\ nos_astar = -1

(***************************************************************************)
(* Claims about the search loops                                           *)
(***************************************************************************)
\* least total cost of an origin-destination path (Inf: none)
Otimo == Restante(busca_G, destino)[Origem]

DijkstraTerminou == fase = "dijkstra" /\ terminou(dj)

AstarTerminou == fase = "astar" /\ terminou(ast)

\* C3: on a graph whose edge costs are all strictly positive, the
\* uniform-cost loop settles the destination with an accumulated cost equal
\* to the least total cost over all origin-destination paths, whenever such
\* a path exists.
C3_DijkstraOtimo ==
  (DijkstraTerminou /\ Otimo < Inf) => (dj.parou /\ dj.custo = Otimo)

\* C3 witness: every node is settled, the destination last and at a cost
\* below that of its direct edge from the origin.
C3_Witness ==
  /\ DijkstraTerminou
  /\ dj.parou
  /\ destino \in neighbors(busca_G, Origem)
  /\ dj.custo < CustoArco(busca_G, Origem, destino)
  /\ Len(dj.ordem) = NumNos

\* the sequences of distinct nodes that start at the origin
CaminhosSimples ==
  {p \in UNION {[1..n -> Nos] : n \in 1..NumNos} :
     /\ p[1] = Origem
     /\ \A i \in 1..Len(p) : \A j \in 1..Len(p) : i # j => p[i] # p[j]}

\* p is a path of least total cost from the origin to the destination, r
\* being the least cost from each node to the destination
CaminhoMinimo(p, r) ==
  /\ p[Len(p)] = destino
  /\ r[Origem] < Inf
  /\ \A i \in 1..(Len(p) - 1) :
       CustoArco(busca_G, p[i], p[i + 1]) + r[p[i + 1]] = r[p[i]]

\* contar_nos_dijkstra has just returned
DijkstraRetornou == fase = "astar" /\ ast = EstadoInicial(Origem)

UmaVez(st) ==
  /\ \A i \in 1..Len(st.ordem) : \A j \in 1..Len(st.ordem) :
       i # j => st.ordem[i] # st.ordem[j]
  /\ {st.ordem[i] : i \in 1..Len(st.ordem)} = st.visitados
  /\ st.explorados = st.visitados
  /\ st.parou => st.ordem[Len(st.ordem)] = destino

\* the entry the next iteration pops is one of a settled node
Obsoleta(st) == ~terminou(st) /\ heappop(st.heap)[2] \in st.visitados

\* the step left the distances and what is settled as they were, and took
\* one entry from the queue
SoRetirou(st, st2) ==
  /\ st2.dist = st.dist
  /\ st2.ordem = st.ordem
  /\ st2.visitados = st.visitados
  /\ st2.explorados = st.explorados
  /\ st2.heap = st.heap \ {heappop(st.heap)}

\* C21: in both loops a node is settled at most once; an iteration that
\* pops an entry of a settled node only drops the entry; and nothing is
\* settled after the destination.
C21_UmaVez ==
  /\ [](UmaVez(dj) /\ UmaVez(ast))
  /\ [][/\ (fase = "dijkstra" /\ Obsoleta(dj)) => SoRetirou(dj, dj')
        /\ (fase = "astar" /\ Obsoleta(ast)) => SoRetirou(ast, ast')
        /\ dj.parou => dj' = dj
        /\ ast.parou => ast' = ast]_vars

\* C21 witness: the uniform-cost loop emptied its queue, and a neighbour of
\* the origin was settled at a cost below that of its edge from the
\* origin: the entry pushed for it from the origin was popped after the
\* node had been settled.
C21_Witness ==
  /\ fase = "dijkstra"
  /\ dj.heap = {}
  /\ ~dj.parou
  /\ \E v \in neighbors(busca_G, Origem) :
       /\ v \in dj.visitados
       /\ dj.dist[v] < peso_minimo(busca_G, Origem, v)

\* C22: with the heuristic that is zero on every node, the heuristic loop
\* settles the same nodes in the same order as the uniform-cost loop, ends
\* with the same distances, and returns the same count.
C22_HeuristicaZero ==
  (fase = "fim" /\ heur = ZeroH) =>
    /\ ast.ordem = dj.ordem
    /\ ast.dist = dj.dist
    /\ ast.parou = dj.parou
    /\ nos_astar = nos_dijkstra

\* C22 witness: both searches returned under the zero heuristic after
\* settling every node, one of them at a cost below the one first pushed
\* for it.
C22_Witness ==
  /\ fase = "fim"
  /\ heur = ZeroH
  /\ nos_astar = NumNos
  /\ \E v \in neighbors(busca_G, Origem) :
       ast.dist[v] < peso_minimo(busca_G, Origem, v)

\* the step from st to st2 settled a node other than the destination and
\* gave each neighbour not yet settled the lesser of the cost it had and
\* the cost of the node plus the least 'length' of the edges that join
\* them
MenorParalela(st, st2) ==
  LET u == heappop(st.heap)[2]
  IN  (~terminou(st) /\ u \notin st.visitados /\ u # destino) =>
        \A v \in neighbors(busca_G, u) \ st2.visitados :
          \A por_u \in {st.dist[u] + CustoArco(busca_G, u, v)} :
            st2.dist[v] = IF st.dist[v] = -1 THEN por_u
                          ELSE Min(st.dist[v], por_u)

\* C23: relaxing from a settled node u to a neighbour v, both loops take
\* the least current 'length' of the parallel u-v edges as the step cost.
C23_MenorParalela ==
  [][/\ fase = "dijkstra" => MenorParalela(dj, dj')
     /\ fase = "astar" => MenorParalela(ast, ast')]_vars

\* C23 witness: the heuristic search settled a node u joined to v by two
\* edges of different 'length', v has no other edge into it, and v holds
\* the cost of u plus the lesser of the two.
C23_Witness ==
  /\ fase = "astar"
  /\ \E u \in ast.visitados \ {destino} : \E v \in neighbors(busca_G, u) :
       /\ Len(busca_G[<<u, v>>]) = MaxParalelas
       /\ busca_G[<<u, v>>][1] < busca_G[<<u, v>>][2]
       /\ \A x \in Nos \ {u} : <<x, v>> \in Arcos => busca_G[<<x, v>>] = <<>>
       /\ ast.dist[v] = ast.dist[u] + busca_G[<<u, v>>][1]
       /\ dj.dist[v] = ast.dist[v]

\* C4 (as stated): with an admissible heuristic the heuristic loop settles
\* the destination with the optimal cost found by the uniform-cost loop.
C4_Original ==
  (AstarTerminou /\ Otimo < Inf) => (ast.parou /\ ast.custo = dj.custo)

\* C5 (as stated): with an admissible heuristic the exploration count of
\* contar_nos_astar is at most that of contar_nos_dijkstra.
C5_Original ==
  fase = "fim" => nos_astar <= nos_dijkstra

\* Nodes the uniform-cost loop left unsettled whose least cost from the
\* origin is at most the cost with which the heuristic loop settled the
\* destination.
NosEmpatados ==
  LET dd == Distancia(busca_G, Origem)
  IN  {v \in Nos \ dj.explorados : dd[v] <= ast.custo}

\* C5 (amended): with an admissible heuristic the exploration count of
\* contar_nos_astar is at most that of contar_nos_dijkstra plus the number
\* of nodes the uniform-cost loop left unsettled whose least cost from the
\* origin does not exceed the cost with which the heuristic loop settled
\* the destination; the two counts are equal when no path exists.
C5_Contagem ==
  fase = "fim" =>
    /\ nos_astar <= nos_dijkstra + Cardinality(NosEmpatados)
    /\ ~ast.parou => nos_astar = nos_dijkstra

\* C5 witness: the heuristic loop settled fewer nodes than the uniform-cost
\* loop, with a heuristic that is not zero everywhere.
C5_Witness ==
  /\ fase = "fim"
  /\ ast.parou
  /\ nos_astar < nos_dijkstra
  /\ heur # ZeroH

(***************************************************************************)
(* Exact fractions standing for the float values of the measurements       *)
(***************************************************************************)
RECURSIVE MDC(_, _)
MDC(a, b) == IF b = 0 THEN a ELSE MDC(b, a % b)

Abs(x) == IF x < 0 THEN 0 - x ELSE x

\* n / d in lowest terms, with a positive denominator (d # 0)
Frac(n, d) ==
  LET s == IF d < 0 THEN 0 - 1 ELSE 1
      m == MDC(Abs(n), Abs(d))
  IN  [num |-> (s * n) \div m, den |-> (s * d) \div m]

FInt(k) == [num |-> k, den |-> 1]

FZero == FInt(0)

FAdd(a, b) == Frac(a.num * b.den + b.num * a.den, a.den * b.den)

FSub(a, b) == Frac(a.num * b.den - b.num * a.den, a.den * b.den)

FMul(a, b) == Frac(a.num * b.num, a.den * b.den)

FDiv(a, b) == Frac(a.num * b.den, a.den * b.num)

FLt(a, b) == a.num * b.den < b.num * a.den

\* math.sqrt of a fraction, kept as the fraction under the root
Raiz(a) == IF a = FZero THEN FZero ELSE [raiz |-> a]

\* a Python list, as a value that can be compared with None (Ausente)

(***************************************************************************)
(* The statistics of a list of durations (whole milliseconds here)         *)
(***************************************************************************)
RECURSIVE Soma(_)
Soma(s) == IF s = <<>> THEN 0 ELSE Head(s) + Soma(Tail(s))

RECURSIVE inserir(_, _)
inserir(s, x) ==
  IF s = <<>> THEN <<x>>
  ELSE IF x <= Head(s) THEN <<x>> \o s
  ELSE <<Head(s)>> \o inserir(Tail(s), x)

RECURSIVE sorted(_)
sorted(s) == IF s = <<>> THEN <<>> ELSE inserir(sorted(Tail(s)), Head(s))

\* statistics.mean (the list is not empty)
mean(tempos) == Frac(Soma(tempos), Len(tempos))

\* statistics.median (the list is not empty)
median(tempos) ==
  LET s == sorted(tempos)
      n == Len(s)
  IN  IF n % 2 = 1 THEN FInt(s[(n + 1) \div 2])
      ELSE Frac(s[n \div 2] + s[n \div 2 + 1], 2)

min_tempos(tempos) == FInt(sorted(tempos)[1])

max_tempos(tempos) == FInt(sorted(tempos)[Len(tempos)])

\* statistics.stdev: the root of the sample variance
\* (n * sum(x^2) - sum(x)^2) / (n * (n - 1)), for n > 1
stdev(tempos) ==
  LET n == Len(tempos)
      q == Soma([k \in 1..n |-> tempos[k] * tempos[k]])
      t == Soma(tempos)
  IN  Raiz(Frac(n * q - t * t, n * (n - 1)))

\* Durations are Python floats. A float is modelled by its value, with a
\* significand of Precisao bits (53 in Python) and round-half-to-even; the
\* whole numbers below 2^Precisao are floats, and the rounding of a
\* product, sum or quotient does not depend on the scale of its operands.
Pot2(k) == IF k >= 0 THEN FInt(2 ^ k) ELSE Frac(1, 2 ^ (0 - k))

\* the binary exponent of the last place of the float nearest to x > 0
expoente(x) ==
  CHOOSE k \in (0 - MaxExpoente)..MaxExpoente :
    LET y == FMul(x, Pot2(0 - k))
    IN  /\ ~FLt(y, FInt(2 ^ (Precisao - 1)))
        /\ FLt(y, FInt(2 ^ Precisao))

\* the float nearest to the non-negative number x
arredondar(x) ==
  IF x.num = 0 THEN x
  ELSE LET e == expoente(x)
           y == FMul(x, Pot2(0 - e))
           f == y.num \div y.den
           r == y.num % y.den
           m == IF 2 * r > y.den \/ (2 * r = y.den /\ f % 2 = 1)
                  THEN f + 1
                ELSE f
       IN  FMul(FInt(m), Pot2(e))

\* statistics.quantiles(tempos, n=n)[i - 1], method 'exclusive':
\* (data[j - 1] * (n - delta) + data[j] * delta) / n, in float arithmetic
quantiles(tempos, n, i) ==
  LET s == sorted(tempos)
      ld == Len(s)
      m == ld + 1
      j0 == (i * m) \div n
      j == IF j0 < 1 THEN 1 ELSE IF j0 > ld - 1 THEN ld - 1 ELSE j0
      delta == i * m - j * n
      esquerda == arredondar(FInt(s[j] * (n - delta)))
      direita == arredondar(FInt(s[j + 1] * delta))
  IN  arredondar(FDiv(arredondar(FAdd(esquerda, direita)), FInt(n)))

desvio_padrao(tempos) == IF Len(tempos) > 1 THEN stdev(tempos) ELSE FZero

\* A slip of the short-list branch: the smallest duration is taken.
percentil_95_min(tempos) ==
  IF Len(tempos) >= 20 THEN quantiles(tempos, 20, 19) ELSE min_tempos(tempos)

percentil_95(tempos) ==
  IF Len(tempos) >= 20 THEN quantiles(tempos, 20, 19) ELSE max_tempos(tempos)

percentil_99(tempos) ==
  IF Len(tempos) >= 100 THEN quantiles(tempos, 100, 99)
  ELSE max_tempos(tempos)

(***************************************************************************)
(* The campus: positions, points of interest and the walking graph.  A     *)
(* coordinate is <<lat, lon>>, the latitude counted in units of 1/111000   *)
(* of a degree (one metre) and every longitude 0, so that the distances    *)
(* of calcular_distancia_euclidiana are whole metres.  A graph is a record *)
(* of its node set and of the lengths of its parallel edges.               *)
(***************************************************************************)
\* G.nodes[n]["y"], G.nodes[n]["x"]
PosNo(n) == <<50 * (n * n - 1), 0>>

Nomes == {"A", "B", "C", "D"}

\* self.pois: each point of interest lies ten metres north of a node
pois ==
  [nome \in Nomes |->
     CASE nome = "A" -> <<10, 0>>
       [] nome = "B" -> <<160, 0>>
       [] nome = "C" -> <<410, 0>>
       [] nome = "D" -> <<760, 0>>]

\* every ordered pair of distinct nodes
Pares == {a \in Nos \X Nos : a[1] # a[2]}

\* 1 <-> 2 (150 m), 2 -> 3 (250 m, one way), 1 -> 3 (450 m, one way);
\* every other node is isolated
ArcosCampus ==
  [a \in Pares |->
     CASE a = <<1, 2>> -> <<150>>
       [] a = <<2, 1>> -> <<150>>
       [] a = <<2, 3>> -> <<250>>
       [] a = <<1, 3>> -> <<450>>
       [] OTHER -> <<>>]

GrafoCampus == [nos |-> Nos, arcos |-> ArcosCampus]

\* a graph without nodes
GrafoVazio == [nos |-> {}, arcos |-> [a \in Pares |-> <<>>]]

\* the integer whose square is s
RaizInteira(s) == CHOOSE r \in 0..s : r * r = s

\* calcular_distancia_euclidiana, for points of one meridian
calcular_distancia_euclidiana(p1, p2) ==
  LET delta_lat == p2[1] - p1[1]
      delta_lon == p2[2] - p1[2]
  IN  IF delta_lon = 0 THEN Abs(delta_lat)
      ELSE RaizInteira(delta_lat * delta_lat + delta_lon * delta_lon)

\* A slip of the two tests: `<=` for `<`.
categorizar_distancia_inclusiva(dist_metros) ==
  IF dist_metros <= 200 THEN "curta"
  ELSE IF dist_metros <= 500 THEN "média"
  ELSE "longa"

categorizar_distancia(dist_metros) ==
  IF dist_metros < 200 THEN "curta"
  ELSE IF dist_metros < 500 THEN "média"
  ELSE "longa"

\* ox.distance.nearest_nodes raises on a graph without nodes
nearest_nodes_levanta(g) == g.nos = {}

\* ox.distance.nearest_nodes(G, X, Y) on a graph with nodes: the node
\* nearest to the point, the least identifier among equals
nearest_nodes(g, X, Y) ==
  LET d2(n) == (PosNo(n)[1] - Y) * (PosNo(n)[1] - Y)
               + (PosNo(n)[2] - X) * (PosNo(n)[2] - X)
  IN  CHOOSE n \in g.nos :
        \A k \in g.nos : d2(n) < d2(k) \/ (d2(n) = d2(k) /\ n <= k)

\* nx.has_path(G, no_origem, no_destino)
has_path(g, no_origem, no_destino) ==
  Distancia(g.arcos, no_origem)[no_destino] < Inf

\* A slip of verificar_conectividade: the nodes are resolved and has_path is never
\* asked.
verificar_conectividade_sem_has_path(g, orig, dest) ==
  IF nearest_nodes_levanta(g) THEN FALSE
  ELSE LET no_origem == nearest_nodes(g, orig[2], orig[1])
           no_destino == nearest_nodes(g, dest[2], dest[1])
       IN  no_origem \in g.nos /\ no_destino \in g.nos

\* a bare except around the whole body: any exception gives False
verificar_conectividade(g, orig, dest) ==
  IF nearest_nodes_levanta(g) THEN FALSE
  ELSE LET no_origem == nearest_nodes(g, orig[2], orig[1])
           no_destino == nearest_nodes(g, dest[2], dest[1])
       IN  has_path(g, no_origem, no_destino)

(***************************************************************************)
(* route_calculator: calcular_rota and calcular_rota_completa.  A call     *)
(* returns the pair (pontos, distancia), the messages it showed with       *)
(* st.error / st.info, and the exception that left it ("nenhuma": none).   *)
(***************************************************************************)
\* the simple paths of g from o to d, as node sequences
Caminhos(g, o, d) ==
  {p \in UNION {[1..k -> g.nos] : k \in 1..NumNos} :
     /\ p[1] = o
     /\ p[Len(p)] = d
     /\ \A i, j \in 1..Len(p) : i # j => p[i] # p[j]
     /\ \A i \in 1..(Len(p) - 1) : p[i + 1] \in neighbors(g.arcos, p[i])}

CustoCaminho(g, p) ==
  Soma([i \in 1..(Len(p) - 1) |-> CustoArco(g.arcos, p[i], p[i + 1])])

\* nx.shortest_path(G, no_origem, no_destino, weight="length"), when a
\* path exists: a path of least total length
shortest_path(g, o, d) ==
  CHOOSE p \in Caminhos(g, o, d) :
    \A q \in Caminhos(g, o, d) : CustoCaminho(g, p) <= CustoCaminho(g, q)

\* nx.shortest_path_length(G, no_origem, no_destino, weight="length")
shortest_path_length(g, o, d) == Distancia(g.arcos, o)[d]

\* extrair_geometria_rota: the edges carry no geometry, so each edge of
\* the route gives the positions of its two ends
RECURSIVE extrair_geometria_rota(_, _)
extrair_geometria_rota(g, rota_nodes) ==
  IF Len(rota_nodes) < 2 THEN <<>>
  ELSE LET u == rota_nodes[1]
           v == rota_nodes[2]
           resto == extrair_geometria_rota(g, Tail(rota_nodes))
       IN  IF v \notin neighbors(g.arcos, u) THEN resto
           ELSE <<PosNo(u), PosNo(v)>> \o resto

Retorno(pontos, distancia, st, levantou) ==
  [pontos |-> pontos, distancia |-> distancia, st |-> st,
   levantou |-> levantou]

\* A slip of calcular_rota: nx.NetworkXNoPath is not caught.
calcular_rota_sem_except(g, orig, dest) ==
  IF nearest_nodes_levanta(g)
    THEN Retorno(Ausente, Ausente, <<"Erro ao calcular rota">>, "nenhuma")
  ELSE LET no_origem == nearest_nodes(g, orig[2], orig[1])
           no_destino == nearest_nodes(g, dest[2], dest[1])
       IN  IF ~has_path(g, no_origem, no_destino)
             THEN Retorno(Ausente, Ausente, <<>>, "NetworkXNoPath")
           ELSE Retorno(
                  Lista(extrair_geometria_rota(
                          g, shortest_path(g, no_origem, no_destino))),
                  Num(shortest_path_length(g, no_origem, no_destino)),
                  <<>>, "nenhuma")

\* calcular_rota(G, origem, destino): `except Exception` answers the
\* exception of nearest_nodes, `except nx.NetworkXNoPath` the missing path
calcular_rota(g, orig, dest) ==
  IF nearest_nodes_levanta(g)
    THEN Retorno(Ausente, Ausente, <<"Erro ao calcular rota">>, "nenhuma")
  ELSE LET no_origem == nearest_nodes(g, orig[2], orig[1])
           no_destino == nearest_nodes(g, dest[2], dest[1])
       IN  IF ~has_path(g, no_origem, no_destino)
             THEN Retorno(Ausente, Ausente, <<>>, "nenhuma")
           ELSE Retorno(
                  Lista(extrair_geometria_rota(
                          g, shortest_path(g, no_origem, no_destino))),
                  Num(shortest_path_length(g, no_origem, no_destino)),
                  <<>>, "nenhuma")

calcular_rota_completa(g, orig, dest) ==
  LET r == calcular_rota(g, orig, dest)
  IN  IF r.levantou # "nenhuma" THEN r
      ELSE IF r.pontos = Ausente
        THEN Retorno(Ausente, Ausente,
                     r.st \o <<"Nao existe rota caminhavel", "Tente">>,
                     "nenhuma")
      ELSE r

\* The call calcular_rota(G, origem, destino, algoritmo=algoritmo) of the
\* measurements: the route of calcular_rota under either algorithm, or,
\* on a computation fault, the empty result.
calcular_rota_algoritmo(g, orig, dest, algoritmo, falha) ==
  IF falha
    THEN Retorno(Ausente, Ausente, <<"Erro ao calcular rota">>, "nenhuma")
  ELSE calcular_rota(g, orig, dest)

\* heuristica_astar(G, v, destino_id): the straight-line distance between
\* the two nodes, in metres
heuristica_astar(g, v, destino_id) ==
  calcular_distancia_euclidiana(PosNo(v), PosNo(destino_id))

(***************************************************************************)
(* The whole loops of contar_nos_dijkstra and contar_nos_astar             *)
(***************************************************************************)
RECURSIVE laco_dijkstra(_, _, _)
laco_dijkstra(st, g, destino_id) ==
  IF terminou(st) THEN st
  ELSE laco_dijkstra(iteracao_dijkstra(st, g, destino_id), g, destino_id)

RECURSIVE laco_astar(_, _, _, _)
laco_astar(st, g, destino_id, h) ==
  IF terminou(st) THEN st
  ELSE laco_astar(iteracao_astar(st, g, destino_id, h), g, destino_id, h)

contar_nos_dijkstra(g, origem_id, destino_id) ==
  Cardinality(
    laco_dijkstra(EstadoInicial(origem_id), g.arcos, destino_id).explorados)

contar_nos_astar(g, origem_id, destino_id) ==
  Cardinality(
    laco_astar(EstadoInicial(origem_id), g.arcos, destino_id,
               [v \in Nos |-> heuristica_astar(g, v, destino_id)]).explorados)

(***************************************************************************)
(* medir_algoritmo_completo                                                *)
(***************************************************************************)
\* warmup: int = 3; executar never passes another value
Warmup == 3

\* the dataclass, its fields in the order of the class
MedicaoAlgoritmo(a, s, t, me, md, mi, ma, dp, p95, p99, di, np, ne, er) ==
  [algoritmo |-> a, sucesso |-> s, tempos_ms |-> t,
   tempo_medio_ms |-> me, tempo_mediano_ms |-> md,
   tempo_min_ms |-> mi, tempo_max_ms |-> ma,
   desvio_padrao_ms |-> dp, percentil_95_ms |-> p95,
   percentil_99_ms |-> p99, distancia |-> di,
   num_pontos |-> np, nos_explorados |-> ne,
   erro |-> er]

\* A slip of the early return: the durations collected so far are kept.
medicao_sem_caminho_parcial(algoritmo, tempos) ==
  MedicaoAlgoritmo(algoritmo, FALSE, tempos,
                   IF tempos = <<>> THEN FZero ELSE mean(tempos),
                   FZero, FZero,
                   IF tempos = <<>> THEN FZero ELSE max_tempos(tempos),
                   FZero, FZero, FZero, 0, 0, 0, Str("Sem caminho"))

\* the early return of the timed loop, `if pontos is None:`; tempos are
\* the durations collected before it
medicao_sem_caminho(algoritmo, tempos) ==
  MedicaoAlgoritmo(algoritmo, FALSE, <<>>, FZero, FZero, FZero, FZero,
                   FZero, FZero, FZero, 0, 0, 0, Str("Sem caminho"))

\* the return of `except Exception as e:`
medicao_excecao(algoritmo, e) ==
  MedicaoAlgoritmo(algoritmo, FALSE, <<>>, FZero, FZero, FZero, FZero,
                   FZero, FZero, FZero, 0, 0, 0, Str(e))

\* the final return, for a non-empty list of durations
medicao_sucesso(algoritmo, tempos, distancia_final, pontos_final, nos) ==
  MedicaoAlgoritmo(algoritmo, TRUE, tempos, mean(tempos), median(tempos),
                   min_tempos(tempos), max_tempos(tempos),
                   desvio_padrao(tempos), percentil_95(tempos),
                   percentil_99(tempos), distancia_final.v,
                   Len(pontos_final.v), nos, Ausente)

\* the locals of a measurement that has just been called
MedicaoInicial(algoritmo) ==
  [algoritmo |-> algoritmo, etapa |-> "resolver", k |-> 0, tempos |-> <<>>,
   distancia_final |-> Ausente, pontos_final |-> Ausente,
   no_origem |-> 0, no_destino |-> 0]

\* A slip of the measurement: the exploration count sits inside the timed
\* loop, after its first invocation.
proxima_conta_no_laco(m, rep) ==
  LET m1 == IF m.etapa = "warmup" /\ m.k >= Warmup
              THEN [m EXCEPT !.etapa = "timed", !.k = 0]
            ELSE m
  IN  IF m1.etapa = "timed" /\ (m1.k >= rep \/ m1.k >= 1)
        THEN [m1 EXCEPT !.etapa = "contar"]
      ELSE m1

\* the next statement of the measurement after k iterations of the
\* current loop: range(warmup) and range(repeticoes) may be exhausted
proxima(m, rep) ==
  LET m1 == IF m.etapa = "warmup" /\ m.k >= Warmup
              THEN [m EXCEPT !.etapa = "timed", !.k = 0]
            ELSE m
  IN  IF m1.etapa = "timed" /\ m1.k >= rep
        THEN [m1 EXCEPT !.etapa = "contar"]
      ELSE m1

(***************************************************************************)
(* BenchmarkRotasAprimorado.executar on the campus graph                   *)
(***************************************************************************)
Algoritmos == {"dijkstra", "astar"}

\* A slip of the validation: only the Dijkstra measurement is looked at.
par_valido_so_dijkstra(d, a) == d.sucesso

\* `if not (dijkstra.sucesso and astar.sucesso):`
par_valido(d, a) == d.sucesso /\ a.sucesso

ResultadoComparacao(o, d, dj_m, as_m) ==
  LET dist_euclidiana == calcular_distancia_euclidiana(pois[o], pois[d])
  IN  [origem |-> o, destino |-> d,
       distancia_euclidiana |-> dist_euclidiana,
       categoria_distancia |-> categorizar_distancia(dist_euclidiana),
       dijkstra |-> dj_m, astar |-> as_m,
       speedup_medio |->
         IF FLt(FZero, as_m.tempo_medio_ms)
           THEN FDiv(dj_m.tempo_medio_ms, as_m.tempo_medio_ms)
         ELSE FZero,
       speedup_mediano |->
         IF FLt(FZero, as_m.tempo_mediano_ms)
           THEN FDiv(dj_m.tempo_mediano_ms, as_m.tempo_mediano_ms)
         ELSE FZero,
       economia_nos_pct |->
         IF dj_m.nos_explorados > 0
           THEN FMul(FInt(100),
                     FSub(FInt(1),
                          Frac(as_m.nos_explorados, dj_m.nos_explorados)))
         ELSE FZero]

\* The values the calls of one run return on the campus graph, which no
\* step changes: each is computed once and looked up at the call.
ConectividadeCampus ==
  [o \in Nomes, d \in Nomes |->
     verificar_conectividade(GrafoCampus, pois[o], pois[d])]

RotaCampus ==
  [o \in Nomes, d \in Nomes, a \in Algoritmos, falha \in BOOLEAN |->
     calcular_rota_algoritmo(GrafoCampus, pois[o], pois[d], a, falha)]

NoCampus ==
  [n \in Nomes |-> nearest_nodes(GrafoCampus, pois[n][2], pois[n][1])]

ContagemCampus ==
  [a \in Algoritmos, o \in Nos, d \in Nos |->
     IF a = "dijkstra" THEN contar_nos_dijkstra(GrafoCampus, o, d)
     ELSE contar_nos_astar(GrafoCampus, o, d)]

\* The POI dictionaries a harness is built with: the campus one, one whose
\* two names lie in different components, and one with a single name.
DicionariosPois == {Nomes, {"A", "D"}, {"A"}}

\* `seed: int = 42` of __init__
Semente == 42

\* the seeds other harnesses of the process are built with
OutrasSementes == {7}

\* The generator of the random module right after random.seed(semente):
\* what it yields is a function of the seed and of the values drawn since,
\* so `fresco` tells whether the next draw is the first one of that seed.
GeradorSemeado(semente) == [semente |-> semente, fresco |-> TRUE]

\* BenchmarkRotasAprimorado(grafo, pois, seed): random.seed(seed),
\* self.resultados = []
InitBench ==
  /\ pc = "construido"
  /\ num_testes = 0
  /\ repeticoes = 0
  /\ origem_nome = "A"
  /\ destino_nome = "A"
  /\ pares_testados = 0
  /\ pares_invalidos = 0
  /\ resultados = <<>>
  /\ med = Ausente
  /\ dijkstra = Ausente
  /\ astar = Ausente
  /\ sem_caminho_em = [a \in Algoritmos |-> 0]
  /\ descarte = "nenhum"
  /\ nomes \in DicionariosPois
  /\ chamadas = 0
  /\ rng = GeradorSemeado(Semente)
  /\ eventos = <<>>

\* executar(num_testes, repeticoes_por_teste) up to the while-loop: the two
\* counters start at zero, self.resultados is left as it is. The records
\* of all calls together are kept within MaxTestes.
Chamar ==
  /\ chamadas < MaxChamadas
  /\ num_testes' \in 0..(MaxTestes - Len(resultados))
  /\ repeticoes' \in 0..MaxRepeticoes
  /\ pares_testados' = 0
  /\ pares_invalidos' = 0
  /\ chamadas' = chamadas + 1
  /\ pc' = "laco"
  /\ UNCHANGED <<origem_nome, destino_nome, resultados, med, dijkstra,
                 astar, sem_caminho_em, descarte, nomes, rng, eventos>>
  /\ UNCHANGED <<varsPesos, varsBusca, varsRota, varsCalculo>>

\* the call of executar that main() makes on the harness it built
Executar ==
  /\ pc = "construido"
  /\ Chamar

\* a further call of executar on the same object, after one has returned
ExecutarDeNovo ==
  /\ pc = "retornou"
  /\ Chamar

\* something else in the process draws from the random module between the
\* construction of the harness and its run
OutroUso ==
  /\ pc = "construido"
  /\ rng.fresco
  /\ rng' = [rng EXCEPT !.fresco = FALSE]
  /\ UNCHANGED <<pc, num_testes, repeticoes, origem_nome, destino_nome,
                 pares_testados, pares_invalidos, resultados, med,
                 dijkstra, astar, sem_caminho_em, descarte, nomes,
                 chamadas, eventos>>
  /\ UNCHANGED <<varsPesos, varsBusca, varsRota, varsCalculo>>

\* another BenchmarkRotasAprimorado(..., seed=s) is constructed between
\* the construction of this harness and its run: random.seed(s)
OutroHarness ==
  /\ pc = "construido"
  /\ rng.semente = Semente
  /\ \E s \in OutrasSementes : rng' = GeradorSemeado(s)
  /\ UNCHANGED <<pc, num_testes, repeticoes, origem_nome, destino_nome,
                 pares_testados, pares_invalidos, resultados, med,
                 dijkstra, astar, sem_caminho_em, descarte, nomes,
                 chamadas, eventos>>
  /\ UNCHANGED <<varsPesos, varsBusca, varsRota, varsCalculo>>

\* pares_invalidos += 1, the count kept up to MaxInvalidos
incrementar_invalidos(n) == IF n < MaxInvalidos THEN n + 1 ELSE n

\* `while pares_testados < num_testes:` holds; random.sample(nomes, 2),
\* which raises ValueError when nomes has fewer than two names: nothing
\* in executar catches it.
Sortear ==
  /\ pc = "laco"
  /\ pares_testados < num_testes
  /\ IF Cardinality(nomes) < 2
       THEN /\ pc' = "excecao"
            /\ UNCHANGED <<origem_nome, destino_nome, rng>>
       ELSE /\ \E o \in nomes : \E d \in nomes \ {o} :
                 /\ origem_nome' = o
                 /\ destino_nome' = d
            /\ pc' = "conectividade"
            /\ rng' = [rng EXCEPT !.fresco = FALSE]
  /\ dijkstra' = Ausente
  /\ astar' = Ausente
  /\ sem_caminho_em' = [a \in Algoritmos |-> 0]
  /\ UNCHANGED <<num_testes, repeticoes, pares_testados, pares_invalidos,
                 resultados, med, descarte, nomes, chamadas>>
  /\ eventos' = <<>>
  /\ UNCHANGED <<varsPesos, varsBusca, varsRota, varsCalculo>>

\* the while-loop ends; return self.resultados
Retornar ==
  /\ pc = "laco"
  /\ pares_testados >= num_testes
  /\ pc' = "retornou"
  /\ UNCHANGED <<num_testes, repeticoes, origem_nome, destino_nome,
                 pares_testados, pares_invalidos, resultados, med,
                 dijkstra, astar, sem_caminho_em, descarte>>
  /\ UNCHANGED <<nomes, chamadas, rng, eventos>>
  /\ UNCHANGED <<varsPesos, varsBusca, varsRota, varsCalculo>>

\* `if not verificar_conectividade(...): pares_invalidos += 1; continue`,
\* else on to the call of the Dijkstra measurement
Conectividade ==
  /\ pc = "conectividade"
  /\ IF ~ConectividadeCampus[origem_nome, destino_nome]
       THEN /\ pares_invalidos' = incrementar_invalidos(pares_invalidos)
            /\ descarte' = "conectividade"
            /\ pc' = "laco"
            /\ med' = med
       ELSE /\ pc' = "medir"
            /\ med' = MedicaoInicial("dijkstra")
            /\ UNCHANGED <<pares_invalidos, descarte>>
  /\ UNCHANGED <<num_testes, repeticoes, origem_nome, destino_nome,
                 pares_testados, resultados, dijkstra, astar,
                 sem_caminho_em>>
  /\ UNCHANGED <<nomes, chamadas, rng>>
  /\ eventos' = Append(eventos, <<"par", "conectividade">>)
  /\ UNCHANGED <<varsPesos, varsBusca, varsRota, varsCalculo>>

\* the measurement returns m: to the call of the A* measurement after the
\* Dijkstra one, to the validation after the A* one
Concluir(m) ==
  IF med.algoritmo = "dijkstra"
    THEN /\ dijkstra' = m
         /\ med' = MedicaoInicial("astar")
         /\ UNCHANGED <<astar, pc>>
  ELSE /\ astar' = m
       /\ med' = Ausente
       /\ pc' = "validar"
       /\ UNCHANGED dijkstra

\* the two nearest_nodes calls that open the measurement
MedirResolver ==
  /\ pc = "medir"
  /\ med.etapa = "resolver"
  /\ IF nearest_nodes_levanta(GrafoCampus)
       THEN Concluir(medicao_excecao(med.algoritmo, "nearest_nodes"))
       ELSE /\ med' = proxima(
                 [med EXCEPT
                    !.etapa = "warmup",
                    !.no_origem = NoCampus[origem_nome],
                    !.no_destino = NoCampus[destino_nome]],
                 repeticoes)
            /\ UNCHANGED <<dijkstra, astar, pc>>
  /\ UNCHANGED <<num_testes, repeticoes, origem_nome, destino_nome,
                 pares_testados, pares_invalidos, resultados,
                 sem_caminho_em, descarte>>
  /\ UNCHANGED <<nomes, chamadas, rng, eventos>>
  /\ UNCHANGED <<varsPesos, varsBusca, varsRota, varsCalculo>>

\* one warm-up invocation; what it returns is dropped
MedirWarmup ==
  /\ pc = "medir"
  /\ med.etapa = "warmup"
  /\ \E falha \in BOOLEAN :
       \E r \in {RotaCampus[origem_nome, destino_nome, med.algoritmo,
                             falha]} :
         med' = proxima([med EXCEPT !.k = @ + 1], repeticoes)
  /\ UNCHANGED <<pc, num_testes, repeticoes, origem_nome, destino_nome,
                 pares_testados, pares_invalidos, resultados, dijkstra,
                 astar, sem_caminho_em, descarte>>
  /\ UNCHANGED <<nomes, chamadas, rng>>
  /\ eventos' = Append(eventos, <<med.algoritmo, "warmup">>)
  /\ UNCHANGED <<varsPesos, varsBusca, varsRota, varsCalculo>>

\* one timed invocation, which took t milliseconds
MedirTimed ==
  /\ pc = "medir"
  /\ med.etapa = "timed"
  /\ \E falha \in BOOLEAN : \E t \in 1..MaxTempo :
       LET r == RotaCampus[origem_nome, destino_nome, med.algoritmo, falha]
       IN  IF r.pontos = Ausente
             THEN /\ Concluir(medicao_sem_caminho(med.algoritmo, med.tempos))
                  /\ sem_caminho_em' =
                       [sem_caminho_em EXCEPT ![med.algoritmo] = med.k + 1]
           ELSE /\ med' = proxima(
                     [med EXCEPT !.tempos = Append(@, t),
                                 !.k = @ + 1,
                                 !.distancia_final = r.distancia,
                                 !.pontos_final = r.pontos],
                     repeticoes)
                /\ UNCHANGED <<dijkstra, astar, pc, sem_caminho_em>>
  /\ UNCHANGED <<num_testes, repeticoes, origem_nome, destino_nome,
                 pares_testados, pares_invalidos, resultados, descarte>>
  /\ UNCHANGED <<nomes, chamadas, rng>>
  /\ eventos' = Append(eventos, <<med.algoritmo, "timed">>)
  /\ UNCHANGED <<varsPesos, varsBusca, varsRota, varsCalculo>>

\* after the timed loop: the exploration count, then the statistics;
\* statistics.mean raises on an empty list
MedirContar ==
  /\ pc = "medir"
  /\ med.etapa = "contar"
  /\ LET nos_explorados ==
           ContagemCampus[med.algoritmo, med.no_origem, med.no_destino]
     IN  IF med.tempos = <<>>
           THEN Concluir(medicao_excecao(med.algoritmo, "StatisticsError"))
         ELSE Concluir(medicao_sucesso(med.algoritmo, med.tempos,
                                       med.distancia_final,
                                       med.pontos_final, nos_explorados))
  /\ UNCHANGED <<num_testes, repeticoes, origem_nome, destino_nome,
                 pares_testados, pares_invalidos, resultados,
                 sem_caminho_em, descarte>>
  /\ UNCHANGED <<nomes, chamadas, rng>>
  /\ eventos' = Append(eventos, <<med.algoritmo, "contar">>)
  /\ UNCHANGED <<varsPesos, varsBusca, varsRota, varsCalculo>>

\* the validation of the two measurements, then either the discard or
\* the record appended to self.resultados
Validar ==
  /\ pc = "validar"
  /\ IF ~par_valido(dijkstra, astar)
       THEN /\ pares_invalidos' = incrementar_invalidos(pares_invalidos)
            /\ descarte' = "medicao"
            /\ UNCHANGED <<pares_testados, resultados>>
       ELSE /\ resultados' =
                 Append(resultados,
                        ResultadoComparacao(origem_nome, destino_nome,
                                            dijkstra, astar))
            /\ pares_testados' = pares_testados + 1
            /\ UNCHANGED <<pares_invalidos, descarte>>
  /\ pc' = "laco"
  /\ UNCHANGED <<num_testes, repeticoes, origem_nome, destino_nome, med,
                 dijkstra, astar, sem_caminho_em>>
  /\ UNCHANGED <<nomes, chamadas, rng, eventos>>
  /\ UNCHANGED <<varsPesos, varsBusca, varsRota, varsCalculo>>

Next ==
  \/ Executar
  \/ Sortear
  \/ Retornar
  \/ Conectividade
  \/ MedirResolver
  \/ MedirWarmup
  \/ MedirTimed
  \/ MedirContar
  \/ Validar

\* statistics.stdev raises StatisticsError on fewer than two values
stdev_levanta(xs) == Len(xs) < 2

\* How gerar_relatorio ends: the early return on an empty self.resultados,
\* the StatisticsError of the `Desvio Padrão` line, or the whole report
\* printed.  mean, median, min and max take any list that is not empty,
\* and the lists by category are built from records, so never empty.
gerar_relatorio(rs) ==
  LET tempos_dijkstra == [i \in 1..Len(rs) |-> rs[i].dijkstra.tempo_medio_ms]
  IN  IF rs = <<>> THEN "sem_resultados"
      ELSE IF stdev_levanta(tempos_dijkstra) THEN "StatisticsError"
      ELSE "relatorio"

\* self.gerar_relatorio(), the last statement of executar_completo, after
\* self.executar(...) has returned and the two exports were written
GerarRelatorio ==
  /\ pc = "retornou"
  /\ pc' = IF gerar_relatorio(resultados) = "StatisticsError"
             THEN "relatorio_excecao"
           ELSE "relatorio_feito"
  /\ UNCHANGED <<num_testes, repeticoes, origem_nome, destino_nome,
                 pares_testados, pares_invalidos, resultados, med,
                 dijkstra, astar, sem_caminho_em, descarte>>
  /\ UNCHANGED <<nomes, chamadas, rng, eventos>>
  /\ UNCHANGED <<varsPesos, varsBusca, varsRota, varsCalculo>>

\* executar_completo: executar, then the report
NextCompleto ==
  \/ Executar
  \/ Sortear
  \/ Retornar
  \/ Conectividade
  \/ MedirResolver
  \/ MedirWarmup
  \/ MedirTimed
  \/ MedirContar
  \/ Validar
  \/ GerarRelatorio

\* The harness as an object of a longer-lived process: executar may be
\* called again, and the random module is shared with whatever else runs
\* between the construction and the run.
NextProcesso ==
  \/ Executar
  \/ ExecutarDeNovo
  \/ OutroUso
  \/ OutroHarness
  \/ Sortear
  \/ Retornar
  \/ Conectividade
  \/ MedirResolver
  \/ MedirWarmup
  \/ MedirTimed
  \/ MedirContar
  \/ Validar

(***************************************************************************)
(* SpecRota: route queries to calcular_rota and calcular_rota_completa,    *)
(* on the campus graph with some of its edges closed, or on a graph        *)
(* without nodes.                                                          *)
(***************************************************************************)
GrafosRota ==
  {GrafoVazio} \cup
  {[nos |-> Nos,
    arcos |-> [a \in Pares |-> IF a \in abertos THEN ArcosCampus[a]
                               ELSE <<>>]] :
     abertos \in SUBSET {a \in Pares : ArcosCampus[a] # <<>>}}

\* what happens inside the query: no node found, no path, or a route
CasoRota(g, orig, dest) ==
  IF g.nos = {} THEN "nao_resolvido"
  ELSE IF ~has_path(g, nearest_nodes(g, orig[2], orig[1]),
                    nearest_nodes(g, dest[2], dest[1]))
    THEN "sem_caminho"
  ELSE "rota"

InitRota ==
  /\ rota_G \in GrafosRota
  /\ rota_origem \in {pois[n] : n \in Nomes}
  /\ rota_destino \in {pois[n] : n \in Nomes}
  /\ rota_fase = "pronta"
  /\ rota_funcao = "nenhuma"
  /\ rota_ret = Retorno(Ausente, Ausente, <<>>, "nenhuma")
  /\ rota_st = <<>>
  /\ rota_caso = "nenhum"
  /\ consultas = 0

CalcularRota ==
  /\ rota_fase = "pronta"
  /\ rota_ret' = calcular_rota(rota_G, rota_origem, rota_destino)
  /\ rota_st' = rota_st \o rota_ret'.st
  /\ rota_caso' = CasoRota(rota_G, rota_origem, rota_destino)
  /\ rota_funcao' = "calcular_rota"
  /\ rota_fase' = "retornou"
  /\ consultas' = consultas + 1
  /\ UNCHANGED <<rota_G, rota_origem, rota_destino>>
  /\ UNCHANGED <<varsPesos, varsBusca, varsBench, varsCalculo>>

CalcularRotaCompleta ==
  /\ rota_fase = "pronta"
  /\ rota_ret' = calcular_rota_completa(rota_G, rota_origem, rota_destino)
  /\ rota_st' = rota_st \o rota_ret'.st
  /\ rota_caso' = CasoRota(rota_G, rota_origem, rota_destino)
  /\ rota_funcao' = "calcular_rota_completa"
  /\ rota_fase' = "retornou"
  /\ consultas' = consultas + 1
  /\ UNCHANGED <<rota_G, rota_origem, rota_destino>>
  /\ UNCHANGED <<varsPesos, varsBusca, varsBench, varsCalculo>>

\* the user picks another origin and destination
NovaConsulta ==
  /\ rota_fase = "retornou"
  /\ consultas < MaxConsultas
  /\ rota_origem' \in {pois[n] : n \in Nomes}
  /\ rota_destino' \in {pois[n] : n \in Nomes}
  /\ rota_fase' = "pronta"
  /\ rota_st' = <<>>
  /\ UNCHANGED <<rota_G, rota_funcao, rota_ret, rota_caso, consultas>>
  /\ UNCHANGED <<varsPesos, varsBusca, varsBench, varsCalculo>>

NextRota ==
  \/ CalcularRota
  \/ CalcularRotaCompleta
  \/ NovaConsulta

(***************************************************************************)
(* Claims about the benchmark harness (specification Spec)                 *)
(***************************************************************************)
\* the nodes joined to n by edges taken in either direction
RECURSIVE ComponenteK(_, _, _)
ComponenteK(g, S, k) ==
  IF k = 0 THEN S
  ELSE ComponenteK(g,
         S \cup {v \in g.nos : \E u \in S :
                   \/ v \in neighbors(g.arcos, u)
                   \/ u \in neighbors(g.arcos, v)},
         k - 1)

Componente(g, n) == ComponenteK(g, {n}, NumNos)

ComponenteCampus ==
  [n \in Nomes |->
     Componente(GrafoCampus,
                nearest_nodes(GrafoCampus, pois[n][2], pois[n][1]))]

\* the nearest nodes of the two points lie in different components
EntreComponentes(o, d) == ComponenteCampus[o] # ComponenteCampus[d]

\* C6: no record of resultados joins two points whose nearest nodes lie
\* in different components of the graph, and the connectivity check of
\* such a drawn pair adds exactly one to pares_invalidos, leaves
\* pares_testados and resultados as they are and goes back to the loop.
C6_Descarte ==
  /\ [](\A i \in 1..Len(resultados) :
          ~EntreComponentes(resultados[i].origem, resultados[i].destino))
  /\ [][(pc = "conectividade" /\ EntreComponentes(origem_nome, destino_nome))
          => /\ pares_invalidos' = incrementar_invalidos(pares_invalidos)
             /\ pares_testados' = pares_testados
             /\ resultados' = resultados
             /\ pc' = "laco"]_vars

\* a pair across components has just been discarded, in a run that also
\* accepted a pair
C6_Witness ==
  /\ pc = "laco"
  /\ descarte = "conectividade"
  /\ EntreComponentes(origem_nome, destino_nome)
  /\ pares_invalidos >= 1
  /\ Len(resultados) >= 1

\* C7: in every record of resultados both measurements have sucesso
\* true; a pair with a failed measurement is counted in pares_invalidos
\* and not appended.
C7_AmbosSucesso ==
  /\ [](\A i \in 1..Len(resultados) :
          resultados[i].dijkstra.sucesso /\ resultados[i].astar.sucesso)
  /\ [][(pc = "validar" /\ ~(dijkstra.sucesso /\ astar.sucesso))
          => /\ pares_invalidos' = incrementar_invalidos(pares_invalidos)
             /\ pares_testados' = pares_testados
             /\ resultados' = resultados]_vars

\* a pair whose Dijkstra measurement succeeded and whose A* measurement
\* failed has just been discarded, in a run that also accepted a pair
C7_Witness ==
  /\ pc = "laco"
  /\ descarte = "medicao"
  /\ dijkstra # Ausente
  /\ astar # Ausente
  /\ dijkstra.sucesso
  /\ ~astar.sucesso
  /\ Len(resultados) >= 1

\* the measurement of a failed search: no timings, everything zero
Zerada(m) ==
  /\ m.sucesso = FALSE
  /\ m.erro = Str("Sem caminho")
  /\ m.tempos_ms = <<>>
  /\ m.tempo_medio_ms = FZero
  /\ m.tempo_mediano_ms = FZero
  /\ m.tempo_min_ms = FZero
  /\ m.tempo_max_ms = FZero
  /\ m.desvio_padrao_ms = FZero
  /\ m.percentil_95_ms = FZero
  /\ m.percentil_99_ms = FZero
  /\ m.distancia = 0
  /\ m.num_pontos = 0
  /\ m.nos_explorados = 0

\* C8: when a timed invocation of a measurement returned no route, the
\* measurement returned has sucesso false, erro "Sem caminho", an empty
\* list of timings, and every statistic, the distance, the point count
\* and the exploration count zero, whatever the invocations before it
\* returned.
C8_SemCaminho ==
  /\ sem_caminho_em["dijkstra"] > 0
       => (dijkstra # Ausente /\ Zerada(dijkstra))
  /\ sem_caminho_em["astar"] > 0
       => (astar # Ausente /\ Zerada(astar))

\* the second timed invocation of the A* measurement returned no route,
\* after a first one that returned a route
C8_Witness ==
  /\ sem_caminho_em["astar"] = 2
  /\ astar # Ausente
  /\ Zerada(astar)
  /\ dijkstra # Ausente
  /\ dijkstra.sucesso

(***************************************************************************)
(* Claims about the route queries (specification SpecRota)                 *)
(***************************************************************************)
\* C9: when the two nodes are found and no path joins them, calcular_rota
\* returns (None, None) and no exception leaves it.
C9_SemCaminho ==
  (rota_fase = "retornou" /\ rota_funcao = "calcular_rota"
     /\ rota_caso = "sem_caminho")
    => /\ rota_ret.pontos = Ausente
       /\ rota_ret.distancia = Ausente
       /\ rota_ret.levantou = "nenhuma"

C9_Witness ==
  /\ rota_fase = "retornou"
  /\ rota_funcao = "calcular_rota"
  /\ rota_caso = "sem_caminho"
  /\ rota_ret.pontos = Ausente
  /\ rota_ret.levantou = "nenhuma"

\* what calcular_rota returns for two points of the campus that no path
\* joins
RetornoSemCaminho == calcular_rota(GrafoCampus, pois["C"], pois["A"])

\* C10: when a coordinate cannot be resolved to a node, calcular_rota
\* ends with a NodeResolutionError, or with a value that differs from the
\* one it returns when no path exists.
C10_Original ==
  (rota_fase = "retornou" /\ rota_funcao = "calcular_rota"
     /\ rota_caso = "nao_resolvido")
    => \/ rota_ret.levantou = "NodeResolutionError"
       \/ <<rota_ret.pontos, rota_ret.distancia>>
            # <<RetornoSemCaminho.pontos, RetornoSemCaminho.distancia>>

\* C11: no fault escapes executar: whatever the POI dictionary, the call
\* never ends with an exception.
C11_Original == pc # "excecao"

\* no two names of the dictionary are joined by a path, so no pair drawn
\* from it can ever be accepted
SemParAceitavel ==
  /\ Cardinality(nomes) >= 2
  /\ \A o \in nomes : \A d \in nomes \ {o} : ~ConectividadeCampus[o, d]

\* C12: a call of executar on a dictionary without any acceptable pair
\* still returns.
C12_Original == (pc = "laco" /\ SemParAceitavel) ~> (pc = "retornou")

\* C13: when a call of executar(num_testes) returns, the collection it
\* returns holds exactly num_testes records, a second call on the same
\* object included.
C13_Original == (pc = "retornou") => (Len(resultados) = num_testes)

\* C14: within one run, a pair that failed verificar_conectividade and was
\* counted invalid is not the pair of the next draw.
C14_Original ==
  [][(/\ pc = "laco"
      /\ descarte = "conectividade"
      /\ ~ConectividadeCampus[origem_nome, destino_nome]
      /\ pc' = "conectividade")
       => <<origem_nome', destino_nome'>> # <<origem_nome, destino_nome>>]_vars

\* C15: the first pair of every run is drawn from the generator as
\* random.seed(self.seed) left it, whatever else constructed a harness or
\* drew from the random module before, so that two runs with one seed draw
\* the same sequence of pairs.
C15_Original ==
  [][(/\ pc = "laco"
      /\ pares_testados = 0
      /\ pares_invalidos = 0
      /\ pc' = "conectividade")
       => rng = GeradorSemeado(Semente)]_vars

\* C16: categorizar_distancia returns "curta" below 200 metres, "média"
\* from 200 inclusive to 500 exclusive, and "longa" from 500 inclusive on.
C16_Categorias ==
  (calc_fase = "feito")
    => /\ (calc_dist < 200) => (calc_categoria = "curta")
       /\ (200 <= calc_dist /\ calc_dist < 500) => (calc_categoria = "média")
       /\ (calc_dist >= 500) => (calc_categoria = "longa")

C16_Witness ==
  /\ calc_fase = "feito"
  /\ calc_dist = 500
  /\ calc_categoria = "longa"

\* the largest duration of a non-empty list
Maior(tempos) ==
  CHOOSE v \in {tempos[k] : k \in 1..Len(tempos)} :
    \A k \in 1..Len(tempos) : tempos[k] <= v

\* 20 durations, all equal
VinteIguais(tempos) ==
  /\ Len(tempos) = 20
  /\ \A k \in 1..20 : tempos[k] = tempos[1]

\* |a - b| <= u
Dista(a, b, u) == ~FLt(u, FSub(a, b)) /\ ~FLt(u, FSub(b, a))

Quando(a, e) == {i \in 1..Len(eventos) : eventos[i] = <<a, e>>}

De(a) == {i \in 1..Len(eventos) : eventos[i][1] = a}

\* C24: for each pair drawn, the connectivity check comes before every
\* search invocation; in each measurement the warm-up invocations all come
\* before the first timed one, and the exploration count is computed at
\* most once, after all the timed invocations, and exactly once in a
\* measurement that succeeds; the Dijkstra measurement has returned before
\* anything of the heuristic measurement runs.
C24_Ordem ==
  /\ (pc \in {"medir", "validar"} \/ eventos # <<>>)
       => /\ Len(eventos) >= 1
          /\ Quando("par", "conectividade") = {1}
  /\ \A a \in Algoritmos :
       /\ \A i \in Quando(a, "warmup") : \A j \in Quando(a, "timed") : i < j
       /\ Quando(a, "timed") # {}
            => Cardinality(Quando(a, "warmup")) = Warmup
       /\ Cardinality(Quando(a, "contar")) <= 1
       /\ \A k \in Quando(a, "contar") :
            /\ \A j \in De(a) \ {k} : j < k
            /\ Cardinality(Quando(a, "warmup")) = Warmup
            /\ Cardinality(Quando(a, "timed")) = repeticoes
  /\ (dijkstra # Ausente /\ dijkstra.sucesso)
       => Cardinality(Quando("dijkstra", "contar")) = 1
  /\ (astar # Ausente /\ astar.sucesso)
       => Cardinality(Quando("astar", "contar")) = 1
  /\ \A i \in De("dijkstra") : \A j \in De("astar") : i < j
  /\ De("astar") # {} => dijkstra # Ausente
  /\ pc = "medir"
       => IF med.algoritmo = "dijkstra"
            THEN dijkstra = Ausente /\ astar = Ausente /\ De("astar") = {}
          ELSE dijkstra # Ausente /\ astar = Ausente

\* C24 witness: both measurements of a pair have returned a success after
\* Warmup warm-up and MaxRepeticoes timed invocations each.
C24_Witness ==
  /\ pc = "validar"
  /\ repeticoes = MaxRepeticoes
  /\ dijkstra.sucesso
  /\ astar.sucesso
  /\ Len(eventos) = 1 + 2 * (Warmup + MaxRepeticoes + 1)

\* C25: no step of the searches, of the route functions or of the
\* benchmark changes a graph (its nodes, its edges, the 'length' and
\* 'length_original' of an edge); the edge data change only in a step of
\* ponderar_grafo or restaurar_pesos_originais.
C25_Quadro ==
  [][/\ busca_G' = busca_G
     /\ rota_G' = rota_G
     /\ G' # G => (nops' = nops + 1
                     /\ ultimas'[2] \in {"ponderar", "restaurar"})]_vars

\* C25 witness: both counting loops have returned after settling at
\* least three nodes each, one of them a node that two edges of different
\* 'length' leave for the same neighbour.
C25_Witness ==
  /\ fase = "fim"
  /\ nos_dijkstra >= 3
  /\ nos_astar >= 3
  /\ \E u \in (dj.visitados \cap ast.visitados) \ {destino} :
       \E v \in neighbors(busca_G, u) :
         /\ Len(busca_G[<<u, v>>]) = MaxParalelas
         /\ busca_G[<<u, v>>][1] # busca_G[<<u, v>>][2]

\* C28 (as stated): gerar_relatorio completes without raising whenever
\* resultados holds at least one record, one record alone included, and
\* leaves resultados as it was.
C28_Original ==
  /\ [](Len(resultados) >= 1 => pc # "relatorio_excecao")
  /\ [][pc = "retornou" => resultados' = resultados]_vars

(***************************************************************************)
(* The specifications.  Each one runs one part of the program; the state   *)
(* of the other parts stays as it is.                                      *)
(***************************************************************************)
PesosParado ==
  /\ G = [e \in Arestas |-> [length |-> Um, length_original |-> Ausente]]
  /\ nops = 0
  /\ ultimas = <<"nenhuma", "nenhuma">>
  /\ antes = [e \in Arestas |-> Um]
  /\ antes_limpo = [e \in Arestas |-> TRUE]
  /\ primeiro = [e \in Arestas |-> Ausente]
  /\ antes2 = [e \in Arestas |-> Um]
  /\ perfis = <<"nenhum", "nenhum">>
  /\ historia = <<>>

BuscaParada ==
  /\ busca_G = [a \in Arcos |-> <<>>]
  /\ destino = Origem
  /\ heur = ZeroH
  /\ fase = "fim"
  /\ dj = EstadoInicial(Origem)
  /\ ast = EstadoInicial(Origem)
  /\ nos_dijkstra = -1
  /\ nos_astar = -1

BenchParado ==
  /\ pc = "parado"
  /\ num_testes = 0
  /\ repeticoes = 0
  /\ origem_nome = "A"
  /\ destino_nome = "A"
  /\ pares_testados = 0
  /\ pares_invalidos = 0
  /\ resultados = <<>>
  /\ med = Ausente
  /\ dijkstra = Ausente
  /\ astar = Ausente
  /\ sem_caminho_em = [a \in Algoritmos |-> 0]
  /\ descarte = "nenhum"
  /\ nomes = Nomes
  /\ chamadas = 0
  /\ rng = GeradorSemeado(Semente)
  /\ eventos = <<>>

\* no call of calcular_peso_aresta is set up
SemAresta ==
  /\ calc_G = <<>>
  /\ calc_e = <<1, 2, 0>>
  /\ calc_perfil = Ausente
  /\ calc_peso = Ausente

CalculoParado ==
  /\ calc_fase = "parado"
  /\ calc_dist = 0
  /\ calc_categoria = ""
  /\ calc_tempos = <<>>
  /\ calc_medicao = Ausente
  /\ SemAresta

RotaParada ==
  /\ rota_G = GrafoVazio
  /\ rota_origem = pois["A"]
  /\ rota_destino = pois["A"]
  /\ rota_fase = "parada"
  /\ rota_funcao = "nenhuma"
  /\ rota_ret = Retorno(Ausente, Ausente, <<>>, "nenhuma")
  /\ rota_st = <<>>
  /\ rota_caso = "nenhum"
  /\ consultas = 0

(***************************************************************************)
(* SpecCategoria: categorizar_distancia applied to a distance in metres.   *)
(***************************************************************************)
InitCategoria ==
  /\ calc_fase = "pronta"
  /\ calc_dist \in 0..MaxDistancia
  /\ calc_categoria = ""
  /\ calc_tempos = <<>>
  /\ calc_medicao = Ausente
  /\ SemAresta
  /\ PesosParado /\ BuscaParada /\ BenchParado /\ RotaParada

\* categoria = categorizar_distancia(dist_euclidiana)
Categorizar ==
  /\ calc_fase = "pronta"
  /\ calc_categoria' = categorizar_distancia(calc_dist)
  /\ calc_fase' = "feito"
  /\ UNCHANGED <<calc_dist, calc_tempos, calc_medicao>>
  /\ UNCHANGED <<calc_G, calc_e, calc_perfil, calc_peso>>
  /\ UNCHANGED <<varsPesos, varsBusca, varsBench, varsRota>>

(***************************************************************************)
(* SpecPercentil: the statistics of the final return of                    *)
(* medir_algoritmo_completo, applied to a list of durations.               *)
(***************************************************************************)
\* the floats of one binade, as whole numbers
ValoresTempo == (2 ^ (Precisao - 1))..(2 ^ Precisao - 1)

\* The lists of durations measured: the short ones, the lists of 19 and of
\* 20 equal durations, and the lists of 20 whose last duration differs.
ListasTempos ==
  UNION {[1..n -> ValoresTempo] : n \in 1..MaxLista}
    \cup {[k \in 1..n |-> v] : v \in ValoresTempo, n \in {19, 20}}
    \cup {[k \in 1..19 |-> v] \o <<w>> : v \in ValoresTempo, w \in ValoresTempo}

InitPercentil ==
  /\ calc_fase = "pronta"
  /\ calc_dist = 0
  /\ calc_categoria = ""
  /\ calc_tempos \in ListasTempos
  /\ calc_medicao = Ausente
  /\ SemAresta
  /\ PesosParado /\ BuscaParada /\ BenchParado /\ RotaParada

\* `return MedicaoAlgoritmo(algoritmo=algoritmo, sucesso=True, ...)` after
\* a timed loop that collected calc_tempos
MedirEstatisticas ==
  /\ calc_fase = "pronta"
  /\ calc_medicao' =
       medicao_sucesso("dijkstra", calc_tempos, Num(0), Lista(<<>>), 1)
  /\ calc_fase' = "feito"
  /\ UNCHANGED <<calc_dist, calc_categoria, calc_tempos>>
  /\ UNCHANGED <<calc_G, calc_e, calc_perfil, calc_peso>>
  /\ UNCHANGED <<varsPesos, varsBusca, varsBench, varsRota>>

(***************************************************************************)
(* SpecPesoAresta: calcular_peso_aresta applied to one edge.  Each incline *)
(* and width value is drawn together with the number it denotes (Ausente:  *)
(* none, which for `if incline:` and `if width` includes a numeric zero).  *)
(***************************************************************************)
Inclines ==
  { <<Ausente, Ausente>>,
    <<Str(<<>>), Ausente>>,
    <<Str(<<"1", "0", "%">>), Num(DInt(10))>>,
    <<Str(<<"-", "8">>), Num(DInt(0 - 8))>>,
    <<Str(<<" ", "5", " ", "%">>), Num(DInt(5))>>,
    <<Str(<<"u", "p">>), Ausente>>,
    <<Str(<<"5", ".", "1", ".", "0">>), Ausente>>,
    <<Num(DInt(6)), Num(DInt(6))>>,
    <<Num(Dec(0 - 51, 1)), Num(Dec(0 - 51, 1))>>,
    <<Num(DInt(0)), Ausente>>,
    <<Lista(<<"8", "3">>), Ausente>> }

Larguras ==
  { <<Ausente, Ausente>>,
    <<Str(<<>>), Ausente>>,
    <<Str(<<"1", ".", "2", " ", "m">>), Num(Dec(12, 1))>>,
    <<Str(<<"2", "m">>), Num(DInt(2))>>,
    <<Str(<<"1", ".", "5">>), Num(Dec(15, 1))>>,
    <<Str(<<"0">>), Num(DInt(0))>>,
    <<Str(<<"n", "a", "r", "r", "o", "w">>), Ausente>>,
    <<Num(DInt(1)), Num(DInt(1))>>,
    <<Num(DInt(0)), Ausente>>,
    <<Lista(<<"1", "2">>), Ausente>> }

\* the edges drawn: into the crossing, out of it, and away from it
ArestasPeso == {<<1, 2, 0>>, <<2, 3, 0>>, <<3, 1, 0>>}

InitPesoAresta ==
  /\ calc_fase = "pronta"
  /\ calc_dist = 0
  /\ calc_categoria = ""
  /\ calc_tempos = <<>>
  /\ calc_medicao = Ausente
  /\ calc_e \in ArestasPeso
  /\ \E wc \in {"", "no", "limited", "yes"} :
     \E hw \in {"footway", "steps", "footway_ramp"} :
     \E inc \in Inclines : \E rp \in {"", "yes"} :
     \E sf \in {"", "gravel", "asphalt"} : \E wd \in Larguras :
     \E l \in 1..MaxComprimento :
       calc_G = [e \in {calc_e} |->
                  [wheelchair |-> wc, highway |-> hw, incline |-> inc[1],
                   ramp |-> rp, surface |-> sf, width |-> wd[1],
                   length |-> DInt(l), length_original |-> Ausente]]
  /\ calc_perfil \in Perfis
  /\ calc_peso = Ausente
  /\ PesosParado /\ BuscaParada /\ BenchParado /\ RotaParada

\* peso_customizado = calcular_peso_aresta(G, u, v, key, perfil, faixas)
CalcularPesoAresta ==
  /\ calc_fase = "pronta"
  /\ calc_peso' = Num(calcular_peso_aresta(calc_G, calc_e, calc_perfil,
                                          identificar_faixas_pedestres))
  /\ calc_fase' = "feito"
  /\ UNCHANGED <<calc_dist, calc_categoria, calc_tempos, calc_medicao>>
  /\ UNCHANGED <<calc_G, calc_e, calc_perfil>>
  /\ UNCHANGED <<varsPesos, varsBusca, varsBench, varsRota>>

SpecPesoAresta == InitPesoAresta /\ [][CalcularPesoAresta]_vars

\* the number a drawn incline or width value denotes (Ausente: none)
Denota(tabela, x) == (CHOOSE p \in tabela : p[1] = x)[2]

\* the factors that apply to an edge with data d from u to v under a
\* profile, each with its name
Selecionados(d, u, v, perfil) ==
  LET inc == Denota(Inclines, d.incline)
      wid == Denota(Larguras, d.width)
      acessivel == perfil.requer_acessibilidade
      se(c, nome, f) == IF c THEN {<<nome, f>>} ELSE {}
  IN  se(d.wheelchair = "no" /\ acessivel, "sem_rampa",
         perfil.penalizacao_sem_rampa)
        \cup se(d.wheelchair = "limited", "limitada",
                DMul(Dec(5, 1), perfil.penalizacao_sem_rampa))
        \cup se(d.highway = "steps", "escadas", perfil.penalizacao_escadas)
        \cup se(inc # Ausente /\ (DLt(DInt(5), inc.v) \/ DLt(inc.v, DInt(0 - 5))),
                "inclinacao", perfil.penalizacao_inclinacao)
        \cup se(acessivel /\ (d.ramp = "yes" \/ d.highway = "footway_ramp"),
                "rampa", Dec(7, 1))
        \cup se(perfil.prefere_faixas /\ {u, v} \cap {2} = {},
                "sem_faixa", perfil.penalizacao_sem_faixa)
        \cup se(perfil.prefere_faixas /\ {u, v} \cap {2} # {},
                "faixa", Dec(8, 1))
        \cup se(acessivel /\ d.surface = "gravel", "irregular", DInt(2))
        \cup se(acessivel /\ d.surface = "asphalt", "boa", Dec(9, 1))
        \cup se(acessivel /\ wid # Ausente /\ DLt(wid.v, Dec(15, 1)),
                "estreito", Dec(15, 1))

RECURSIVE Produto(_)
Produto(S) ==
  IF S = {} THEN Um
  ELSE LET x == CHOOSE y \in S : TRUE IN DMul(x[2], Produto(S \ {x}))

\* the graph of the call with one tag of its edge taken away
SemIncline == [calc_G EXCEPT ![calc_e].incline = Ausente]

SemWidth == [calc_G EXCEPT ![calc_e].width = Ausente]

\* C26: calcular_peso_aresta returns the length of the edge times the
\* product of the factors the seven steps select, and an incline or width
\* that denotes no number changes nothing: the call returns what it
\* returns on the edge without that tag.
C26_Fatores ==
  (calc_fase = "feito" /\ calc_perfil # Ausente) =>
    /\ calc_peso =
         Num(DMul(calc_G[calc_e].length,
                  Produto(Selecionados(calc_G[calc_e], calc_e[1], calc_e[2],
                                       calc_perfil))))
    /\ Denota(Inclines, calc_G[calc_e].incline) = Ausente
         => calc_peso = Num(calcular_peso_aresta(SemIncline, calc_e,
                              calc_perfil, identificar_faixas_pedestres))
    /\ Denota(Larguras, calc_G[calc_e].width) = Ausente
         => calc_peso = Num(calcular_peso_aresta(SemWidth, calc_e,
                              calc_perfil, identificar_faixas_pedestres))

\* C26 witness: the call has returned for the accessibility profile on an
\* edge whose incline and width are words, not numbers, and to which five
\* factors apply.
C26_Witness ==
  /\ calc_fase = "feito"
  /\ calc_perfil # Ausente
  /\ calc_perfil.requer_acessibilidade
  /\ calc_G[calc_e].incline = Str(<<"u", "p">>)
  /\ calc_G[calc_e].width = Str(<<"n", "a", "r", "r", "o", "w">>)
  /\ Cardinality(Selecionados(calc_G[calc_e], calc_e[1], calc_e[2],
                              calc_perfil)) = 5
  /\ calc_peso # Num(calc_G[calc_e].length)

InitSpecPesos ==
  InitPesos /\ BuscaParada /\ BenchParado /\ RotaParada /\ CalculoParado

SpecPesos == InitSpecPesos /\ [][NextPesos]_vars

InitSpecBusca ==
  InitBusca /\ PesosParado /\ BenchParado /\ RotaParada /\ CalculoParado

SpecBusca == InitSpecBusca /\ [][NextBusca]_vars

InitSpecParalelas ==
  InitParalelas /\ PesosParado /\ BenchParado /\ RotaParada /\ CalculoParado

SpecParalelas == InitSpecParalelas /\ [][NextBusca]_vars

Init ==
  InitBench /\ PesosParado /\ BuscaParada /\ RotaParada /\ CalculoParado

Spec == Init /\ [][Next]_vars

SpecProcesso == Init /\ [][NextProcesso]_vars

SpecCompleto == Init /\ [][NextCompleto]_vars

\* The while-loop of executar is sequential code: whenever a step of it
\* can be taken, one is taken.
SpecVivo == Init /\ [][Next]_vars /\ WF_vars(Next)

SpecCategoria == InitCategoria /\ [][Categorizar]_vars

SpecPercentil == InitPercentil /\ [][MedirEstatisticas]_vars

InitSpecRota ==
  InitRota /\ PesosParado /\ BuscaParada /\ BenchParado /\ CalculoParado

SpecRota == InitSpecRota /\ [][NextRota]_vars

====
